---------------------------- MODULE Spec2Model ----------------------------
(***************************************************************************)
(* A model of the document store of src/db.py (the base engine: record     *)
(* store, equality index, numeric range index, undo-log transactions,      *)
(* snapshot persistence) and of src/simpledb.py (the variant with login,   *)
(* a full-text index and gzip snapshots).                                  *)
(*                                                                         *)
(* Every public method holds the engine's single re-entrant lock from its  *)
(* first statement to its last, so one method call is one atomic action.   *)
(* Operators that model db.py carry the method's name; the ones that model *)
(* simpledb.py carry the prefix simpledb_.                                 *)
(***************************************************************************)
EXTENDS Integers, Sequences, FiniteSets, TLC

VARIABLES
    store,              \* self.store: a dict, kept as its items in insertion order
    value_index,        \* self.value_index: canonical text -> list of keys
    btree_keys,         \* self.btree_root.keys: list of (key, value) pairs
    inverted_index,     \* self.inverted_index (simpledb.py): token -> list of keys
    transaction_log,    \* self.transaction_log: list of (op, key, old_value)
    transaction_active, \* self.transaction_active
    current_user,       \* self.current_user (simpledb.py)
    current_role,       \* self.current_role (simpledb.py)
    db_file,            \* the snapshot file at self.db_file
    bak_file,           \* the sibling backup file self.db_file + '.bak'
    ret,                \* what the last public call returned or raised
    begin_store,        \* history: the store as it was when begin succeeded
    ncalls,             \* history: the number of public calls made so far
    begin_file,         \* history: the snapshot file as it was when begin succeeded
    tmp_file,           \* the temporary file save writes before the replace
    save_pc,            \* the statement a running save has reached
    timer_fired,        \* the Timer of the running I/O step of save has fired
    lost_log,           \* history: the undo log the last process died with,
                        \* or the last rollback replayed
    lock,               \* self.lock, an RLock: the owning thread and its depth
    threads             \* each calling thread: its call, its position in the
                        \* method and the method's local variables

vars == <<store, value_index, btree_keys, inverted_index, transaction_log,
          transaction_active, current_user, current_role, db_file, bak_file,
          ret, begin_store, ncalls, begin_file, tmp_file, save_pc,
          timer_fired, lost_log, lock, threads>>

(***************************************************************************)
(* Bounds of the model.                                                    *)
(***************************************************************************)
\* The number of public calls one run of the model makes.
MaxCalls == 4

\* The keys the commands of the model name.
Keys == {"a", "b"}

(***************************************************************************)
(* Dynamic values: what json.loads yields, tagged with the Python type.    *)
(* n is the number a numeric value compares as (True is 1, False is 0),    *)
(* s the text of a string, d the items of a dict or a list in order, each   *)
(* a pair of the field name ("" in a list) and the value.                  *)
(***************************************************************************)
IntV(n) == [t |-> "int", n |-> n, s |-> "", d |-> <<>>]

BoolV(b) == [t |-> "bool", n |-> IF b THEN 1 ELSE 0, s |-> "", d |-> <<>>]

StrV(s) == [t |-> "str", n |-> 0, s |-> s, d |-> <<>>]

DictV(items) == [t |-> "dict", n |-> 0, s |-> "", d |-> items]

ListV(items) == [t |-> "list", n |-> 0, s |-> "", d |-> items]

None == [t |-> "null", n |-> 0, s |-> "", d |-> <<>>]

\* The outcome of json.loads on a text that is not JSON (JSONDecodeError).
JSONDecodeError == [t |-> "invalid", n |-> 0, s |-> "", d |-> <<>>]

\* isinstance(value, (int, float)): bool is a subclass of int in Python.
IsNumber(v) == v.t \in {"int", "float", "bool"}

\* isinstance(value, str), isinstance(value, dict)
IsStr(v) == v.t = "str"

IsDict(v) == v.t = "dict"

\* field in value, value[field] for a dict
HasField(v, f) == \E i \in 1..Len(v.d) : v.d[i][1] = f

Field(v, f) == v.d[CHOOSE i \in 1..Len(v.d) : v.d[i][1] = f][2]

(***************************************************************************)
(* The Serializer: json.dumps(value) and json.dumps(value, sort_keys=True).*)
(***************************************************************************)
RECURSIVE SortedItems(_)
\* The items of a dict in ascending order of field name (sort_keys=True);
\* the field names of the model are compared through FieldRank.
FieldRank(f) ==
    CASE f = "Age" -> 1
      [] f = "Class" -> 2
      [] f = "Grade" -> 3
      [] f = "Name" -> 4
      [] f = "Subjects" -> 5
      [] OTHER -> 6

SortedItems(items) ==
    IF items = <<>> THEN <<>>
    ELSE LET lo == CHOOSE i \in 1..Len(items) :
                       \A j \in 1..Len(items) :
                           \/ FieldRank(items[i][1]) < FieldRank(items[j][1])
                           \/ (FieldRank(items[i][1]) = FieldRank(items[j][1]) /\ i <= j)
             rest == [j \in 1..(Len(items) - 1) |->
                         IF j < lo THEN items[j] ELSE items[j + 1]]
         IN <<items[lo]>> \o SortedItems(rest)

RECURSIVE json_dumps(_, _)
RECURSIVE DumpItems(_, _, _)
DumpItems(items, sort_keys, as_dict) ==
    IF items = <<>> THEN ""
    ELSE LET head == (IF as_dict THEN "\"" \o items[1][1] \o "\": " ELSE "")
                         \o json_dumps(items[1][2], sort_keys)
         IN IF Len(items) = 1 THEN head
            ELSE head \o ", " \o DumpItems(Tail(items), sort_keys, as_dict)

json_dumps(v, sort_keys) ==
    CASE v.t = "int" -> ToString(v.n)
      [] v.t = "bool" -> (IF v.n = 1 THEN "true" ELSE "false")
      [] v.t = "str" -> "\"" \o v.s \o "\""
      [] v.t = "null" -> "null"
      [] v.t = "list" -> "[" \o DumpItems(v.d, sort_keys, FALSE) \o "]"
      [] v.t = "dict" ->
            "{" \o DumpItems(IF sort_keys THEN SortedItems(v.d) ELSE v.d,
                             sort_keys, TRUE) \o "}"

(***************************************************************************)
(* json.loads, on the texts the model feeds it: the raw values the         *)
(* commands pass and the texts json.dump writes into the snapshot.  Any    *)
(* other text of the model is not JSON.                                    *)
(***************************************************************************)
json_loads(text) ==
    CASE text = "5" -> IntV(5)
      [] text = "6" -> IntV(6)
      [] text = "7" -> IntV(7)
      [] text = "0" -> IntV(0)
      [] text = "1" -> IntV(1)
      [] text = "true" -> BoolV(TRUE)
      [] text = "false" -> BoolV(FALSE)
      [] text = "null" -> None
      [] text = "\"hello\"" -> StrV("hello")
      [] text = "\"hello 5\"" -> StrV("hello 5")
      [] text = "{\"Class\": \"A\"}" -> DictV(<<<<"Class", StrV("A")>>>>)
      [] text = "{\"Class\": \"B\"}" -> DictV(<<<<"Class", StrV("B")>>>>)
      [] text = "[1, 2]" -> ListV(<<<<"", IntV(1)>>, <<"", IntV(2)>>>>)
      [] text = "[]" -> ListV(<<>>)
      [] text = "{\"file_paths\": []}" ->
            DictV(<<<<"file_paths", ListV(<<>>)>>>>)
      [] OTHER -> JSONDecodeError

\* all(isinstance(s, str) for s in parsed['Subjects'])
AllStr(v) == \A i \in 1..Len(v.d) : IsStr(v.d[i][2])

\* The checks parse_value makes on an object that has the five student fields.
StudentValid(parsed) ==
    /\ IsStr(Field(parsed, "Name"))
    /\ Field(parsed, "Age").t \in {"int", "bool"}
    /\ Field(parsed, "Grade").t \in {"int", "bool", "str"}
    /\ IsStr(Field(parsed, "Class"))
    /\ Field(parsed, "Subjects").t = "list"
    /\ AllStr(Field(parsed, "Subjects"))

\* parse_value: the decoded value; the literal text as a string when the text
\* is not JSON or is a student object with a field of the wrong type.
parse_value(value) ==
    LET parsed == json_loads(value)
    IN IF parsed = JSONDecodeError THEN StrV(value)
       ELSE IF /\ IsDict(parsed)
               /\ \A f \in {"Name", "Age", "Grade", "Class", "Subjects"} :
                      HasField(parsed, f)
               /\ ~StudentValid(parsed)
            THEN StrV(value)
            ELSE parsed

(***************************************************************************)
(* The Tokenizer: set(re.findall(r'\b\w+\b', str(value).lower())).         *)
(***************************************************************************)
\* The lowercase words of the strings of the model.
StrWords(s) ==
    CASE s = "" -> {}
      [] s = "files/a_photo.jpg.gz" -> {"files", "a_photo", "jpg", "gz"}
      [] s = "files/b_photo.jpg.gz" -> {"files", "b_photo", "jpg", "gz"}
      [] s = "hello" -> {"hello"}
      [] s = "hello 5" -> {"hello", "5"}
      [] s = "A" -> {"a"}
      [] s = "Class" -> {"class"}
      [] OTHER -> {s}

RECURSIVE Words(_)
RECURSIVE ItemWords(_, _)
ItemWords(items, as_dict) ==
    IF items = <<>> THEN {}
    ELSE (IF as_dict THEN StrWords(items[1][1]) ELSE {})
             \cup Words(items[1][2]) \cup ItemWords(Tail(items), as_dict)

Words(v) ==
    CASE v.t = "int" -> {ToString(v.n)}
      [] v.t = "bool" -> (IF v.n = 1 THEN {"true"} ELSE {"false"})
      [] v.t = "null" -> {"none"}
      [] v.t = "str" -> StrWords(v.s)
      [] v.t = "list" -> ItemWords(v.d, FALSE)
      [] v.t = "dict" -> ItemWords(v.d, TRUE)

(***************************************************************************)
(* The record store: a Python dict, which keeps its items in insertion     *)
(* order.                                                                  *)
(***************************************************************************)
Range(seq) == {seq[i] : i \in 1..Len(seq)}

KeysOf(st) == {st[i][1] : i \in 1..Len(st)}

\* key in self.store
\* A store in which no key is ever found.
Has_nothing(st, key) == FALSE

Has(st, key) == key \in KeysOf(st)

\* self.store[key]
Get(st, key) == st[CHOOSE i \in 1..Len(st) : st[i][1] = key][2]

\* self.store[key] = value: in place for a present key, at the end otherwise
Put(st, key, value) ==
    IF Has(st, key)
    THEN [i \in 1..Len(st) |-> IF st[i][1] = key THEN <<key, value>> ELSE st[i]]
    ELSE Append(st, <<key, value>>)

\* del self.store[key]
Del(st, key) == SelectSeq(st, LAMBDA item : item[1] # key)

\* The store as a mapping, for comparing two stores whatever their order.
AsMap(st) == [k \in KeysOf(st) |-> Get(st, k)]

(***************************************************************************)
(* The bucket indexes (value_index, inverted_index): defaultdict(list).    *)
(***************************************************************************)
\* index.get(name, [])
Bucket(index, name) == IF name \in DOMAIN index THEN index[name] ELSE <<>>

\* index[name]: a defaultdict creates the empty bucket it is asked for
Touch(index, name) ==
    IF name \in DOMAIN index THEN index ELSE index @@ (name :> <<>>)

\* index[name].append(key)
IndexAppend(index, name, key) ==
    [x \in DOMAIN index \cup {name} |->
        IF x = name THEN Append(Bucket(index, name), key) ELSE index[x]]

\* list.remove(key): the first occurrence
RemoveFirst(seq, key) ==
    LET at == CHOOSE i \in 1..Len(seq) :
                  seq[i] = key /\ \A j \in 1..(i - 1) : seq[j] # key
    IN [j \in 1..(Len(seq) - 1) |-> IF j < at THEN seq[j] ELSE seq[j + 1]]

\* IndexDiscard without the del: the bucket stays when its last key leaves.
IndexDiscard_leave_empty(index, name, key) ==
    LET touched == Touch(index, name)
    IN IF key \in Range(touched[name])
       THEN [touched EXCEPT ![name] = RemoveFirst(touched[name], key)]
       ELSE touched

\* IndexDiscard without the remove: the key stays in the bucket it leaves.
IndexDiscard_keep(index, name, key) == Touch(index, name)

\* if key in index[name]: index[name].remove(key);
\*                        if not index[name]: del index[name]
IndexDiscard(index, name, key) ==
    LET touched == Touch(index, name)
    IN IF key \in Range(touched[name])
       THEN LET left == RemoveFirst(touched[name], key)
            IN IF left = <<>>
               THEN [x \in DOMAIN touched \ {name} |-> touched[x]]
               ELSE [touched EXCEPT ![name] = left]
       ELSE touched

(***************************************************************************)
(* The numeric range index: one flat list, re-sorted after every insert.   *)
(***************************************************************************)
RECURSIVE SortByValue(_)
\* list.sort(key=lambda x: x[1]): stable, ascending by value
InsertByValue(sorted, pair) ==
    LET n == Cardinality({i \in 1..Len(sorted) : sorted[i][2].n <= pair[2].n})
    IN [i \in 1..(Len(sorted) + 1) |->
           IF i <= n THEN sorted[i] ELSE IF i = n + 1 THEN pair ELSE sorted[i - 1]]

SortByValue(pairs) ==
    IF pairs = <<>> THEN <<>>
    ELSE InsertByValue(SortByValue(SubSeq(pairs, 1, Len(pairs) - 1)),
                       pairs[Len(pairs)])

\* The insert that appends and does not sort.
btree_insert_unsorted(keys, key, value) == Append(keys, <<key, value>>)

\* btree_insert: append, then sort
btree_insert(keys, key, value) == SortByValue(Append(keys, <<key, value>>))

\* The filter that lets every entry through.
btree_remove_nothing(keys, key) == keys

\* [(k, v) for k, v in self.btree_root.keys if k != key]
btree_remove(keys, key) == SelectSeq(keys, LAMBDA pair : pair[1] # key)

\* btree_range_query: the keys whose value is > or < the query value, in index order
btree_range_query(keys, operator, query_value) ==
    LET hits == SelectSeq(keys, LAMBDA pair :
                    \/ (operator = ">" /\ pair[2].n > query_value.n)
                    \/ (operator = "<" /\ pair[2].n < query_value.n))
    IN [i \in 1..Len(hits) |-> hits[i][1]]

(***************************************************************************)
(* Full rebuild (rebuild_indices of db.py): both indexes are emptied and   *)
(* filled again in one pass over the store, in the store's order.          *)
(***************************************************************************)
RECURSIVE FillValueIndex(_, _)
FillValueIndex(st, index) ==
    IF st = <<>> THEN index
    ELSE FillValueIndex(Tail(st),
             IndexAppend(index, json_dumps(st[1][2], TRUE), st[1][1]))

\* numeric_pairs
NumericPairs(st) == SelectSeq(st, LAMBDA item : IsNumber(item[2]))

rebuild_indices(st) ==
    [value_index |-> FillValueIndex(st, <<>>),
     btree_keys |-> SortByValue(NumericPairs(st))]

(***************************************************************************)
(* The snapshot file and its backup.  A file is absent or holds a          *)
(* document: the store's items in order, each value as its JSON text.      *)
(* form tells what the bytes of the file are: "object" for a JSON object   *)
(* (doc holds its items), "array" for JSON whose top-level value is a      *)
(* list, "garbage" for bytes that are no JSON document (a part of one      *)
(* included), "empty" for a file of size 0.                                *)
(***************************************************************************)
Absent == [exists |-> FALSE, form |-> "none", doc |-> <<>>]

\* A file of size 0.
EmptyFile == [exists |-> TRUE, form |-> "empty", doc |-> <<>>]

\* A file whose bytes json.load rejects with JSONDecodeError.
GarbageFile == [exists |-> TRUE, form |-> "garbage", doc |-> <<>>]

\* A file that holds the JSON text [] : json.load gives a list.
ArrayFile == [exists |-> TRUE, form |-> "array", doc |-> <<>>]

\* os.path.exists(self.db_file) and os.path.getsize(self.db_file) > 0
NonEmpty(file) == file.exists /\ file.form # "empty"

\* json.dump(self.store, temp_file, indent=2)
json_dump(st) ==
    [exists |-> TRUE, form |-> "object",
     doc |-> [i \in 1..Len(st) |-> <<st[i][1], json_dumps(st[i][2], FALSE)>>]]

\* json.load(f)
json_load(file) ==
    [i \in 1..Len(file.doc) |-> <<file.doc[i][1], json_loads(file.doc[i][2])>>]

\* What a call of save can meet: it runs to the end, or the directory or the
\* file is not writable and it raises PermissionError before touching a file.
SaveOutcomes == {"ok", "PermissionError"}

\* save that writes the target in place: a save that fails has already
\* overwritten the snapshot.
save_inplace(st, io) ==
    /\ bak_file' = IF io = "ok" /\ NonEmpty(db_file) THEN db_file ELSE bak_file
    /\ db_file' = json_dump(st)

\* save without the write: the snapshot file is never replaced.
save_nothing(st, io) == UNCHANGED <<db_file, bak_file>>

\* save: the backup copy of a present snapshot, then the new snapshot in place
save(st, io) ==
    IF io = "ok"
    THEN /\ bak_file' = IF NonEmpty(db_file) THEN db_file ELSE bak_file
         /\ db_file' = json_dump(st)
    ELSE UNCHANGED <<db_file, bak_file>>

(***************************************************************************)
(* Results of the public calls.                                            *)
(***************************************************************************)
\* status: "ok", the error a call returns as its result, or "raised" for an
\* exception that leaves the call; out: the JSON text a result carries.
Ret(op, key, status, out) == [op |-> op, key |-> key, status |-> status, out |-> out]

\* The raw values the commands of the model pass to create and update.
Raws == {"5", "6", "true", "hello"}

\* The threads that call the engine.
Threads == {"t1", "t2"}

\* self.lock that no thread holds.
Unlocked == [owner |-> "", count |-> 0]

\* A thread that is in no call.  began and created are history: the thread's
\* begin opened the transaction that is open, and the key the thread has
\* created inside a transaction another thread opened.
Idle == [pc |-> "idle", op |-> "", key |-> "", value |-> "", old_value |-> None,
         i |-> 0, status |-> "", out |-> "", began |-> FALSE, created |-> ""]

\* The lock and the calling threads: a command of the main loop runs in the
\* one thread of the process, takes the free lock and gives it back before
\* the next command.
thread_vars == <<lock, threads>>

\* One more public call, while the run has calls left.
\* The state of a running save: a command runs its save to the end, so
\* between commands no save is running and no temporary file is left.
save_vars == <<tmp_file, save_pc, timer_fired>>

Counted ==
    /\ ncalls < MaxCalls
    /\ ncalls' = ncalls + 1
    /\ UNCHANGED <<save_vars, thread_vars>>

Call == Counted /\ UNCHANGED lost_log

\* The state only simpledb.py has.
simpledb_vars == <<inverted_index, current_user, current_role>>

(***************************************************************************)
(* db.py: the transaction commands.                                        *)
(***************************************************************************)
\* begin without the test of the flag: a second begin starts over.
begin_restart ==
    /\ transaction_active' = TRUE
    /\ transaction_log' = <<>>
    /\ begin_store' = store
    /\ begin_file' = db_file
    /\ ret' = Ret("begin", "", "ok", "")
    /\ UNCHANGED <<store, value_index, btree_keys, db_file, bak_file,
                   simpledb_vars>>

begin ==
    IF transaction_active
    THEN /\ ret' = Ret("begin", "", "TransactionInProgress", "")
         /\ UNCHANGED <<store, value_index, btree_keys, transaction_log,
                        transaction_active, db_file, bak_file, begin_store,
                        begin_file, simpledb_vars>>
    ELSE /\ transaction_active' = TRUE
         /\ transaction_log' = <<>>
         /\ begin_store' = store
         /\ begin_file' = db_file
         /\ ret' = Ret("begin", "", "ok", "")
         /\ UNCHANGED <<store, value_index, btree_keys, db_file, bak_file,
                        simpledb_vars>>

\* commit without the save: the transaction is closed, nothing is written.
commit_unsaved(io) ==
    IF ~transaction_active
    THEN /\ ret' = Ret("commit", "", "NoTransaction", "")
         /\ UNCHANGED <<store, value_index, btree_keys, transaction_log,
                        transaction_active, db_file, bak_file, begin_store,
                        begin_file, simpledb_vars>>
    ELSE /\ transaction_log' = <<>>
         /\ transaction_active' = FALSE
         /\ begin_store' = <<>>
         /\ begin_file' = Absent
         /\ ret' = Ret("commit", "", "ok", "")
         /\ UNCHANGED <<store, value_index, btree_keys, db_file, bak_file,
                        simpledb_vars>>

commit(io) ==
    IF ~transaction_active
    THEN /\ ret' = Ret("commit", "", "NoTransaction", "")
         /\ UNCHANGED <<store, value_index, btree_keys, transaction_log,
                        transaction_active, db_file, bak_file, begin_store,
                        begin_file, simpledb_vars>>
    ELSE /\ save(store, io)
         /\ IF io = "ok"
            THEN /\ transaction_log' = <<>>
                 /\ transaction_active' = FALSE
                 /\ begin_store' = <<>>
                 /\ begin_file' = Absent
                 /\ ret' = Ret("commit", "", "ok", "")
            ELSE /\ ret' = Ret("commit", "", "error", "")
                 /\ UNCHANGED <<transaction_log, transaction_active,
                                begin_store, begin_file>>
         /\ UNCHANGED <<store, value_index, btree_keys, simpledb_vars>>

\* The pass that restores the value of an update or delete record and leaves
\* the indexes as they are.
Undo_without_rebuild(rec, eng) ==
    IF rec.op = "create"
    THEN IF Has(eng.store, rec.key)
         THEN [store |-> Del(eng.store, rec.key),
               value_index |-> eng.value_index,
               btree_keys |-> btree_remove(eng.btree_keys, rec.key)]
         ELSE eng
    ELSE [store |-> Put(eng.store, rec.key, rec.old_value),
          value_index |-> eng.value_index,
          btree_keys |-> eng.btree_keys]

\* One pass of rollback's loop over the log, on the engine state eng.
Undo(rec, eng) ==
    IF rec.op = "create"
    THEN IF Has(eng.store, rec.key)
         THEN [store |-> Del(eng.store, rec.key),
               value_index |->
                   IF rec.old_value # None
                   THEN IndexDiscard(eng.value_index,
                                     json_dumps(rec.old_value, TRUE), rec.key)
                   ELSE eng.value_index,
               btree_keys |-> btree_remove(eng.btree_keys, rec.key)]
         ELSE eng
    ELSE LET restored == Put(eng.store, rec.key, rec.old_value)
         IN [store |-> restored] @@ rebuild_indices(restored)

RECURSIVE Replay_reverse(_, _)
\* The loop over the log taken from its last record to its first.
Replay_reverse(log, eng) ==
    IF log = <<>> THEN eng
    ELSE Undo(Head(log), Replay_reverse(Tail(log), eng))

RECURSIVE Replay(_, _)
\* for op, key, old_value in self.transaction_log: in the order of the log
Replay(log, eng) ==
    IF log = <<>> THEN eng ELSE Replay(Tail(log), Undo(Head(log), eng))

rollback ==
    IF ~transaction_active
    THEN /\ ret' = Ret("rollback", "", "NoTransaction", "")
         /\ UNCHANGED <<store, value_index, btree_keys, transaction_log,
                        transaction_active, db_file, bak_file, begin_store,
                        begin_file, lost_log, simpledb_vars>>
    ELSE LET eng == Replay(transaction_log,
                           [store |-> store, value_index |-> value_index,
                            btree_keys |-> btree_keys])
         IN /\ store' = eng.store
            /\ value_index' = eng.value_index
            /\ btree_keys' = eng.btree_keys
            /\ transaction_log' = <<>>
            /\ transaction_active' = FALSE
            /\ begin_store' = <<>>
            /\ begin_file' = Absent
            /\ lost_log' = transaction_log
            /\ ret' = Ret("rollback", "", "ok", "")
            /\ UNCHANGED <<db_file, bak_file, simpledb_vars>>

(***************************************************************************)
(* db.py: create, read, update, delete.                                    *)
(***************************************************************************)
\* The record put at the head of the log instead of its end.
Logged_first(op, key, old_value) ==
    IF transaction_active
    THEN <<[op |-> op, key |-> key, old_value |-> old_value]>> \o transaction_log
    ELSE transaction_log

\* The append without the test of the flag.
Logged_always(op, key, old_value) ==
    Append(transaction_log, [op |-> op, key |-> key, old_value |-> old_value])

\* self.transaction_log.append((op, key, old_value)) while a transaction is open
Logged(op, key, old_value) ==
    IF transaction_active
    THEN Append(transaction_log, [op |-> op, key |-> key, old_value |-> old_value])
    ELSE transaction_log

\* create without parse_value: the raw text is stored as a string.
create_raw(key, value, io) ==
    /\ IF Has(store, key)
       THEN /\ ret' = Ret("create", key, "KeyExists", "")
            /\ UNCHANGED <<store, value_index, btree_keys, transaction_log,
                           db_file, bak_file>>
       ELSE LET parsed_value == StrV(value)
            IN /\ transaction_log' = Logged("create", key, None)
               /\ store' = Put(store, key, parsed_value)
               /\ value_index' = IndexAppend(value_index,
                                     json_dumps(parsed_value, TRUE), key)
               /\ btree_keys' = btree_keys
               /\ IF ~transaction_active
                  THEN /\ save(store', io)
                       /\ ret' = IF io = "ok"
                                 THEN Ret("create", key, "ok",
                                          json_dumps(parsed_value, FALSE))
                                 ELSE Ret("create", key, "raised", "")
                  ELSE /\ UNCHANGED <<db_file, bak_file>>
                       /\ ret' = Ret("create", key, "ok",
                                     json_dumps(parsed_value, FALSE))
    /\ UNCHANGED <<transaction_active, begin_store, begin_file, simpledb_vars>>

create(key, value, io) ==
    /\ IF Has(store, key)
       THEN /\ ret' = Ret("create", key, "KeyExists", "")
            /\ UNCHANGED <<store, value_index, btree_keys, transaction_log,
                           db_file, bak_file>>
       ELSE LET parsed_value == parse_value(value)
            IN /\ transaction_log' = Logged("create", key, None)
               /\ store' = Put(store, key, parsed_value)
               /\ value_index' = IndexAppend(value_index,
                                     json_dumps(parsed_value, TRUE), key)
               /\ btree_keys' = IF IsNumber(parsed_value)
                                THEN btree_insert(btree_keys, key, parsed_value)
                                ELSE btree_keys
               /\ IF ~transaction_active
                  THEN /\ save(store', io)
                       /\ ret' = IF io = "ok"
                                 THEN Ret("create", key, "ok",
                                          json_dumps(parsed_value, FALSE))
                                 ELSE Ret("create", key, "raised", "")
                  ELSE /\ UNCHANGED <<db_file, bak_file>>
                       /\ ret' = Ret("create", key, "ok",
                                     json_dumps(parsed_value, FALSE))
    /\ UNCHANGED <<transaction_active, begin_store, begin_file, simpledb_vars>>

\* What read returns for a key on the store st.
read_result(st, key) ==
    IF Has(st, key)
    THEN Ret("read", key, "ok", json_dumps(Get(st, key), FALSE))
    ELSE Ret("read", key, "KeyNotFound", "")

read(key) ==
    /\ ret' = read_result(store, key)
    /\ UNCHANGED <<store, value_index, btree_keys, transaction_log,
                   transaction_active, db_file, bak_file, begin_store,
                   begin_file, simpledb_vars>>

update(key, value, io) ==
    /\ IF ~Has(store, key)
       THEN /\ ret' = Ret("update", key, "KeyNotFound", "")
            /\ UNCHANGED <<store, value_index, btree_keys, transaction_log,
                           db_file, bak_file>>
       ELSE LET old_value == Get(store, key)
                parsed_value == parse_value(value)
                removed == btree_remove(btree_keys, key)
            IN /\ transaction_log' = Logged("update", key, old_value)
               /\ store' = Put(store, key, parsed_value)
               /\ value_index' =
                      IndexAppend(IndexDiscard(value_index,
                                      json_dumps(old_value, TRUE), key),
                                  json_dumps(parsed_value, TRUE), key)
               /\ btree_keys' = IF IsNumber(parsed_value)
                                THEN btree_insert(removed, key, parsed_value)
                                ELSE removed
               /\ IF ~transaction_active
                  THEN /\ save(store', io)
                       /\ ret' = IF io = "ok"
                                 THEN Ret("update", key, "ok",
                                          json_dumps(parsed_value, FALSE))
                                 ELSE Ret("update", key, "raised", "")
                  ELSE /\ UNCHANGED <<db_file, bak_file>>
                       /\ ret' = Ret("update", key, "ok",
                                     json_dumps(parsed_value, FALSE))
    /\ UNCHANGED <<transaction_active, begin_store, begin_file, simpledb_vars>>

delete(key, io) ==
    /\ IF ~Has(store, key)
       THEN /\ ret' = Ret("delete", key, "KeyNotFound", "")
            /\ UNCHANGED <<store, value_index, btree_keys, transaction_log,
                           db_file, bak_file>>
       ELSE LET value == Get(store, key)
            IN /\ transaction_log' = Logged("delete", key, value)
               /\ store' = Del(store, key)
               /\ value_index' = IndexDiscard(value_index,
                                     json_dumps(value, TRUE), key)
               /\ btree_keys' = btree_remove(btree_keys, key)
               /\ IF ~transaction_active
                  THEN /\ save(store', io)
                       /\ ret' = IF io = "ok"
                                 THEN Ret("delete", key, "ok", "")
                                 ELSE Ret("delete", key, "error", "")
                  ELSE /\ UNCHANGED <<db_file, bak_file>>
                       /\ ret' = Ret("delete", key, "ok", "")
    /\ UNCHANGED <<transaction_active, begin_store, begin_file, simpledb_vars>>

(***************************************************************************)
(* db.py: the engine after SimpleDB() in a directory with no snapshot, and *)
(* the commands a caller can issue.                                        *)
(***************************************************************************)
Init ==
    /\ store = <<>>
    /\ value_index = <<>>
    /\ btree_keys = <<>>
    /\ inverted_index = <<>>
    /\ transaction_log = <<>>
    /\ transaction_active = FALSE
    /\ current_user = ""
    /\ current_role = ""
    /\ db_file = Absent
    /\ bak_file = Absent
    /\ ret = Ret("init", "", "ok", "")
    /\ begin_store = <<>>
    /\ ncalls = 0
    /\ begin_file = Absent
    /\ tmp_file = Absent
    /\ save_pc = "idle"
    /\ timer_fired = FALSE
    /\ lost_log = <<>>
    /\ lock = Unlocked
    /\ threads = [t \in Threads |-> Idle]

Next ==
    \/ \E key \in Keys, value \in Raws, io \in SaveOutcomes :
           Call /\ create(key, value, io)
    \/ \E key \in Keys : Call /\ read(key)
    \/ \E key \in Keys, value \in Raws, io \in SaveOutcomes :
           Call /\ update(key, value, io)
    \/ \E key \in Keys, io \in SaveOutcomes : Call /\ delete(key, io)
    \/ Call /\ begin
    \/ \E io \in SaveOutcomes : Call /\ commit(io)
    \/ Counted /\ rollback

Spec == Init /\ [][Next]_vars

(***************************************************************************)
(* db.py: find.  The model starts from parts, the words shlex.split makes  *)
(* of the query.                                                           *)
(***************************************************************************)
RECURSIVE Join(_, _)
\* sep.join(parts)
Join(parts, sep) ==
    IF parts = <<>> THEN ""
    ELSE IF Len(parts) = 1 THEN parts[1]
    ELSE parts[1] \o sep \o Join(Tail(parts), sep)

\* str.lower() on the strings of the model
Lower(text) ==
    CASE text = "A" -> "a"
      [] text = "B" -> "b"
      [] text = "Class" -> "class"
      [] OTHER -> text

\* str(value).lower(): Python's rendering, not JSON's
StrLower(v) ==
    CASE v.t = "int" -> ToString(v.n)
      [] v.t = "bool" -> (IF v.n = 1 THEN "true" ELSE "false")
      [] v.t = "null" -> "none"
      [] v.t = "str" -> Lower(v.s)
      [] v.t = "dict" ->
            "{" \o Join([i \in 1..Len(v.d) |->
                            "'" \o Lower(v.d[i][1]) \o "': '"
                                \o Lower(v.d[i][2].s) \o "'"], ", ") \o "}"
      [] OTHER -> "[]"

\* needle in text, for the needles the queries of the model carry
IsSubstring(needle, text) ==
    \/ needle = text
    \/ needle = ""
    \/ <<needle, text>> \in {<<"5", "hello 5">>, <<"hello", "hello 5">>,
                              <<"class", "{'class': 'a'}">>,
                              <<"class", "{'class': 'b'}">>}

\* value == other in Python: numbers, booleans included, by their value
PyEq(value, other) ==
    IF IsNumber(value) /\ IsNumber(other) THEN value.n = other.n
    ELSE value = other

\* The test of a field query that lets every record with the field through.
field_match_any_value(value, field, parsed_query_value) ==
    IsDict(value) /\ HasField(value, field)

\* isinstance(value, dict) and field in value and value[field] == parsed_query_value
field_match(value, field, parsed_query_value) ==
    /\ IsDict(value)
    /\ HasField(value, field)
    /\ PyEq(Field(value, field), parsed_query_value)

\* [key for key, value in hits]: the keys of the items a scan of the store
\* lets through, in the store's order
Scan(hits) == [i \in 1..Len(hits) |-> hits[i][1]]

\* What a query selects on the engine eng, before any sorting: status "ok"
\* with the list of keys, or the error the query returns.
Select(eng, main_query) ==
    LET field_or_op == main_query[1]
        query_value == Join(Tail(main_query), " ")
        parsed_query_value == parse_value(query_value)
        Found(keys) == [status |-> "ok", keys |-> keys]
        Error(status) == [status |-> status, keys |-> <<>>]
    IN CASE field_or_op = "=" ->
                Found(Bucket(eng.value_index,
                             json_dumps(parsed_query_value, TRUE)))
         [] field_or_op \in {">", "<"} ->
                (IF ~IsNumber(parsed_query_value)
                 THEN Error("RangeNotNumeric")
                 ELSE Found(btree_range_query(eng.btree_keys, field_or_op,
                                              parsed_query_value)))
         [] field_or_op = "contains" ->
                Found(Scan(SelectSeq(eng.store, LAMBDA item :
                          IsSubstring(Lower(query_value), StrLower(item[2])))))
         [] OTHER ->
                (IF Len(main_query) < 3 \/ main_query[2] # "="
                 THEN Error("InvalidFieldQuery")
                 ELSE Found(Scan(SelectSeq(eng.store, LAMBDA item :
                          field_match(item[2], field_or_op,
                              parse_value(Join(SubSeq(main_query, 3,
                                               Len(main_query)), " ")))))))

\* The engine a query runs on.
Engine ==
    [store |-> store, value_index |-> value_index, btree_keys |-> btree_keys,
     inverted_index |-> inverted_index]

\* What find returns for the words parts on the engine eng.
find_result(eng, parts) ==
    IF Len(parts) < 2 THEN [status |-> "InvalidQuery", keys |-> <<>>]
    ELSE Select(eng, parts)

find(parts) ==
    /\ LET found == find_result(Engine, parts)
       IN ret' = Ret("find", Join(parts, " "), found.status,
                     Join(found.keys, ", "))
    /\ UNCHANGED <<store, value_index, btree_keys, transaction_log,
                   transaction_active, db_file, bak_file, begin_store,
                   begin_file, simpledb_vars>>

\* The values and the queries of the runs with find.
FindRaws == {"5", "7", "true", "{\"Class\": \"A\"}", "{\"Class\": \"B\"}"}

Queries ==
    {<<"=", "5">>, <<">", "5">>, <<"<", "7">>, <<">", "0">>, <<">", "A">>,
     <<"contains", "5">>, <<"Class", "=", "A">>, <<"Class", "A">>, <<"=">>}

NextFind ==
    \/ \E key \in Keys, value \in FindRaws, io \in SaveOutcomes :
           Call /\ create(key, value, io)
    \/ \E key \in Keys, value \in FindRaws, io \in SaveOutcomes :
           Call /\ update(key, value, io)
    \/ \E key \in Keys, io \in SaveOutcomes : Call /\ delete(key, io)
    \/ Call /\ begin
    \/ \E io \in SaveOutcomes : Call /\ commit(io)
    \/ Counted /\ rollback
    \/ \E parts \in Queries : Call /\ find(parts)

SpecFind == Init /\ [][NextFind]_vars

(***************************************************************************)
(* db.py without its transaction commands: the runs in which no            *)
(* transaction is ever started.                                            *)
(***************************************************************************)
NextNoTxn ==
    \/ \E key \in Keys, value \in Raws, io \in SaveOutcomes :
           Call /\ create(key, value, io)
    \/ \E key \in Keys : Call /\ read(key)
    \/ \E key \in Keys, value \in Raws, io \in SaveOutcomes :
           Call /\ update(key, value, io)
    \/ \E key \in Keys, io \in SaveOutcomes : Call /\ delete(key, io)

SpecNoTxn == Init /\ [][NextNoTxn]_vars

(***************************************************************************)
(* db.py across process lifetimes.  The process starts on the files it     *)
(* finds, runs commands, and may terminate after any command; the next     *)
(* process starts on the files the last one left.                          *)
(***************************************************************************)
\* The number of public calls, the constructor's load included, of one run
\* of the model with restarts.
MaxRestartCalls == 6

\* The values the commands pass to create and update in the runs with
\* restarts.
RestartRaws == {"5", "true"}

\* The snapshot files the first process can find.
StartFiles ==
    {Absent, EmptyFile, GarbageFile, ArrayFile,
     json_dump(<<<<"a", IntV(5)>>, <<"b", StrV("hello")>>>>)}

\* load without the isinstance(self.store, dict) test: a list is kept.
load_unchecked(io) ==
    /\ lost_log' = transaction_log
    /\ transaction_log' = <<>>
    /\ transaction_active' = FALSE
    /\ begin_store' = <<>>
    /\ begin_file' = Absent
    /\ IF ~db_file.exists
       THEN /\ store' = <<>>
            /\ value_index' = <<>>
            /\ btree_keys' = <<>>
            /\ ret' = Ret("load", "", "NoFile", "")
            /\ UNCHANGED <<db_file, bak_file>>
       ELSE IF db_file.form \in {"object", "array"}
       THEN LET loaded == json_load(db_file)
                rebuilt == rebuild_indices(loaded)
            IN /\ store' = loaded
               /\ value_index' = rebuilt.value_index
               /\ btree_keys' = rebuilt.btree_keys
               /\ ret' = Ret("load", "", "ok", "")
               /\ UNCHANGED <<db_file, bak_file>>
       ELSE /\ store' = <<>>
            /\ value_index' = <<>>
            /\ btree_keys' = <<>>
            /\ save(<<>>, io)
            /\ ret' = IF io = "ok"
                      THEN Ret("load", "", "Corrupted", "")
                      ELSE Ret("load", "", "raised", "")
    /\ UNCHANGED simpledb_vars

\* SimpleDB(): __init__ sets the fields of a new engine and calls load.  The
\* file, when there is one, can be read.
load(io) ==
    /\ lost_log' = transaction_log
    /\ transaction_log' = <<>>
    /\ transaction_active' = FALSE
    /\ begin_store' = <<>>
    /\ begin_file' = Absent
    /\ IF ~db_file.exists
       THEN /\ store' = <<>>
            /\ value_index' = <<>>
            /\ btree_keys' = <<>>
            /\ ret' = Ret("load", "", "NoFile", "")
            /\ UNCHANGED <<db_file, bak_file>>
       ELSE IF db_file.form = "object"
       THEN LET loaded == json_load(db_file)
                rebuilt == rebuild_indices(loaded)
            IN /\ store' = loaded
               /\ value_index' = rebuilt.value_index
               /\ btree_keys' = rebuilt.btree_keys
               /\ ret' = Ret("load", "", "ok", "")
               /\ UNCHANGED <<db_file, bak_file>>
       ELSE \* json.JSONDecodeError or ValueError: self.store = {}; self.save()
            /\ store' = <<>>
            /\ value_index' = <<>>
            /\ btree_keys' = <<>>
            /\ save(<<>>, io)
            /\ ret' = IF io = "ok"
                      THEN Ret("load", "", "Corrupted", "")
                      ELSE Ret("load", "", "raised", "")
    /\ UNCHANGED simpledb_vars

\* A process is running: its constructor has returned an engine.
Running == ret.op # "init" /\ ~(ret.op = "load" /\ ret.status = "raised")

RestartCall ==
    /\ ncalls < MaxRestartCalls
    /\ ncalls' = ncalls + 1
    /\ UNCHANGED <<save_vars, thread_vars>>

\* A command of a running process.
Command == Running /\ RestartCall /\ UNCHANGED lost_log

\* No process yet, and one of the start files on disk.
InitRestart ==
    /\ store = <<>>
    /\ value_index = <<>>
    /\ btree_keys = <<>>
    /\ inverted_index = <<>>
    /\ transaction_log = <<>>
    /\ transaction_active = FALSE
    /\ current_user = ""
    /\ current_role = ""
    /\ db_file \in StartFiles
    /\ bak_file = Absent
    /\ ret = Ret("init", "", "ok", "")
    /\ begin_store = <<>>
    /\ ncalls = 0
    /\ begin_file = Absent
    /\ tmp_file = Absent
    /\ save_pc = "idle"
    /\ timer_fired = FALSE
    /\ lost_log = <<>>
    /\ lock = Unlocked
    /\ threads = [t \in Threads |-> Idle]

NextRestart ==
    \/ \E io \in SaveOutcomes : RestartCall /\ load(io)
    \/ \E key \in Keys, value \in RestartRaws, io \in SaveOutcomes :
           Command /\ create(key, value, io)
    \/ \E key \in Keys, value \in RestartRaws, io \in SaveOutcomes :
           Command /\ update(key, value, io)
    \/ \E key \in Keys, io \in SaveOutcomes : Command /\ delete(key, io)
    \/ Command /\ begin
    \/ \E io \in SaveOutcomes : Command /\ commit(io)
    \/ Running /\ RestartCall /\ rollback

SpecRestart == InitRestart /\ [][NextRestart]_vars

(***************************************************************************)
(* save of db.py, statement by statement (simpledb.py's save differs only  *)
(* in the gzip encoding of the bytes).  The caller holds the lock, so no   *)
(* other method of the engine runs meanwhile; the process can terminate    *)
(* between any two statements, and the Timer that self.timeout starts      *)
(* around each I/O block can fire while the block runs.                    *)
(***************************************************************************)
\* The number of saves one run of the model starts after the first.
MaxSaves == 2

\* The stores the model saves.
SaveStores ==
    {<<>>, <<<<"a", IntV(5)>>>>, <<<<"a", BoolV(TRUE)>>, <<"b", StrV("hello")>>>>}

\* What save leaves alone.
engine_vars == <<store, value_index, btree_keys, inverted_index,
                 transaction_log, transaction_active, current_user,
                 current_role, begin_store, begin_file, lost_log, lock,
                 threads>>

\* The statements of the two blocks that run under self.timeout(5).
BackupBlock == {"backup", "backup_open"}
TempBlock == {"temp", "temp_open", "dumped", "flushed", "synced", "replaced"}

\* save without the backup block.
save_enter_no_backup(io) ==
    /\ save_pc = "idle"
    /\ IF io = "ok"
       THEN /\ save_pc' = "temp"
            /\ UNCHANGED ret
       ELSE /\ save_pc' = "raised"
            /\ ret' = Ret("save", "", "raised", "PermissionError")
    /\ UNCHANGED <<db_file, bak_file, tmp_file, timer_fired, ncalls, engine_vars>>

\* The two os.access tests, then the test for a snapshot to back up.
save_enter(io) ==
    /\ save_pc = "idle"
    /\ IF io = "ok"
       THEN /\ save_pc' = IF NonEmpty(db_file) THEN "backup" ELSE "temp"
            /\ UNCHANGED ret
       ELSE /\ save_pc' = "raised"
            /\ ret' = Ret("save", "", "raised", "PermissionError")
    /\ UNCHANGED <<db_file, bak_file, tmp_file, timer_fired, ncalls, engine_vars>>

\* open(backup_file, 'w'): the backup file is created or truncated
save_backup_open ==
    /\ save_pc = "backup"
    /\ save_pc' = "backup_open"
    /\ bak_file' = EmptyFile
    /\ UNCHANGED <<db_file, tmp_file, timer_fired, ret, ncalls, engine_vars>>

\* dst.write(src.read()): a part of the bytes can reach the file early
save_backup_part ==
    /\ save_pc = "backup_open"
    /\ bak_file = EmptyFile
    /\ bak_file' = GarbageFile
    /\ UNCHANGED <<db_file, tmp_file, save_pc, timer_fired, ret, ncalls,
                   engine_vars>>

\* the end of the with block: both files are closed, the copy is whole
save_backup_close ==
    /\ save_pc = "backup_open"
    /\ save_pc' = "temp"
    /\ bak_file' = db_file
    /\ UNCHANGED <<db_file, tmp_file, timer_fired, ret, ncalls, engine_vars>>

\* tempfile.NamedTemporaryFile('w', delete=False, dir=db_dir)
save_temp_create ==
    /\ save_pc = "temp"
    /\ save_pc' = "temp_open"
    /\ tmp_file' = EmptyFile
    /\ UNCHANGED <<db_file, bak_file, timer_fired, ret, ncalls, engine_vars>>

\* json.dump into the file at the target path itself.
save_dump_in_place ==
    /\ save_pc = "temp_open"
    /\ save_pc' = "dumped"
    /\ db_file' = GarbageFile
    /\ UNCHANGED <<tmp_file, bak_file, timer_fired, ret, ncalls, engine_vars>>

\* json.dump(self.store, temp_file, indent=2): the text is in the buffer, a
\* part of it can have reached the file
save_temp_dump ==
    /\ save_pc = "temp_open"
    /\ save_pc' = "dumped"
    /\ tmp_file' \in {EmptyFile, GarbageFile}
    /\ UNCHANGED <<db_file, bak_file, timer_fired, ret, ncalls, engine_vars>>

\* temp_file.flush()
save_temp_flush ==
    /\ save_pc = "dumped"
    /\ save_pc' = "flushed"
    /\ tmp_file' = json_dump(store)
    /\ UNCHANGED <<db_file, bak_file, timer_fired, ret, ncalls, engine_vars>>

\* os.fsync(temp_file.fileno())
save_temp_fsync ==
    /\ save_pc = "flushed"
    /\ save_pc' = "synced"
    /\ UNCHANGED <<db_file, bak_file, tmp_file, timer_fired, ret, ncalls,
                   engine_vars>>

\* os.replace(temp_name, self.db_file)
save_replace ==
    /\ save_pc = "synced"
    /\ save_pc' = "replaced"
    /\ db_file' = tmp_file
    /\ tmp_file' = Absent
    /\ UNCHANGED <<bak_file, timer_fired, ret, ncalls, engine_vars>>

\* the end of the block and of save
save_return ==
    /\ save_pc = "replaced"
    /\ save_pc' = "done"
    /\ ret' = Ret("save", "", "ok", "")
    /\ UNCHANGED <<db_file, bak_file, tmp_file, timer_fired, ncalls,
                   engine_vars>>

\* The Timer of the running block fires: timeout_handler raises TimeoutError
\* in the Timer's thread, where nothing catches it; the thread that runs save
\* goes on.
timeout_handler ==
    /\ save_pc \in BackupBlock \cup TempBlock
    /\ ~timer_fired
    /\ timer_fired' = TRUE
    /\ UNCHANGED <<db_file, bak_file, tmp_file, save_pc, ret, ncalls,
                   engine_vars>>

\* The process terminates inside save.
save_crash ==
    /\ save_pc \in {"idle"} \cup BackupBlock \cup TempBlock
    /\ save_pc' = "crashed"
    /\ UNCHANGED <<db_file, bak_file, tmp_file, timer_fired, ret, ncalls,
                   engine_vars>>

\* The next command changes the store and calls save.
save_again(st) ==
    /\ save_pc \in {"done", "raised"}
    /\ ncalls < MaxSaves
    /\ ncalls' = ncalls + 1
    /\ store' = st
    /\ save_pc' = "idle"
    /\ timer_fired' = FALSE
    /\ UNCHANGED <<db_file, bak_file, tmp_file, ret, value_index, btree_keys,
                   inverted_index, transaction_log, transaction_active,
                   current_user, current_role, begin_store, begin_file,
                   lost_log, lock, threads>>

\* An engine that enters save, on the snapshot file an earlier process, or
\* an empty file someone put there, left.
save_Init ==
    /\ store \in SaveStores
    /\ value_index = <<>>
    /\ btree_keys = <<>>
    /\ inverted_index = <<>>
    /\ transaction_log = <<>>
    /\ transaction_active = FALSE
    /\ current_user = ""
    /\ current_role = ""
    /\ db_file \in {Absent, EmptyFile, json_dump(<<<<"b", IntV(6)>>>>)}
    /\ bak_file \in {Absent, json_dump(<<>>)}
    /\ ret = Ret("init", "", "ok", "")
    /\ begin_store = <<>>
    /\ ncalls = 0
    /\ begin_file = Absent
    /\ tmp_file = Absent
    /\ save_pc = "idle"
    /\ timer_fired = FALSE
    /\ lost_log = <<>>
    /\ lock = Unlocked
    /\ threads = [t \in Threads |-> Idle]

save_Next ==
    \/ \E io \in SaveOutcomes : save_enter(io)
    \/ save_backup_open
    \/ save_backup_part
    \/ save_backup_close
    \/ save_temp_create
    \/ save_temp_dump
    \/ save_temp_flush
    \/ save_temp_fsync
    \/ save_replace
    \/ save_return
    \/ timeout_handler
    \/ save_crash
    \/ \E st \in SaveStores : save_again(st)

save_Spec == save_Init /\ [][save_Next]_vars

(***************************************************************************)
(* simpledb.py: the variant with login and a full-text index.  Its class   *)
(* defines no begin and no commit, so its transaction flag stays False.    *)
(***************************************************************************)
\* self.users, and the (username, password) pairs the model tries
users ==
    [admin |-> [password |-> "admin123", role |-> "admin"],
     user |-> [password |-> "user123", role |-> "user"]]

Logins == {<<"admin", "admin123">>, <<"user", "user123">>, <<"admin", "guess">>}

\* The raw values the commands of this variant pass to create and update.
simpledb_Raws == {"5", "hello", "hello 5", "{\"Class\": \"A\"}"}

db_vars == <<transaction_active, begin_store, begin_file>>

\* for word in words: self.inverted_index[word].append(key)
IndexAppendAll(index, names, key) ==
    [x \in DOMAIN index \cup names |->
        IF x \in names THEN Append(Bucket(index, x), key) ELSE index[x]]

\* IndexDiscardAll without the del: a bucket that loses its last key stays.
IndexDiscardAll_keep_empty(index, names, key) ==
    LET touched == [x \in DOMAIN index \cup names |-> Bucket(index, x)]
    IN [x \in DOMAIN touched |->
           IF x \in names /\ key \in Range(touched[x])
           THEN RemoveFirst(touched[x], key)
           ELSE touched[x]]

\* for word in words:
\*     if word and key in self.inverted_index[word]:
\*         self.inverted_index[word].remove(key)
\*         if not self.inverted_index[word]: del self.inverted_index[word]
IndexDiscardAll(index, names, key) ==
    LET touched == [x \in DOMAIN index \cup names |-> Bucket(index, x)]
        left(x) == IF x \in names /\ key \in Range(touched[x])
                   THEN RemoveFirst(touched[x], key)
                   ELSE touched[x]
        emptied == {x \in names : key \in Range(touched[x]) /\ left(x) = <<>>}
    IN [x \in (DOMAIN touched) \ emptied |-> left(x)]

\* value[field] = x for a dict
SetField(v, f, x) ==
    DictV(IF HasField(v, f)
          THEN [i \in 1..Len(v.d) |-> IF v.d[i][1] = f THEN <<f, x>> ELSE v.d[i]]
          ELSE Append(v.d, <<f, x>>))

\* "file_paths" in value: a TypeError for a number, a boolean or null, a
\* substring test for a string (no string of the model holds the word), a
\* key test for a dict, a membership test for a list.
FilePathsTest(v) ==
    CASE v.t \in {"int", "float", "bool", "null"} -> "TypeError"
      [] v.t = "str" -> "no"
      [] v.t = "dict" -> (IF HasField(v, "file_paths") THEN "yes" ELSE "no")
      [] v.t = "list" ->
            (IF \E i \in 1..Len(v.d) : v.d[i][2] = StrV("file_paths")
             THEN "yes" ELSE "no")

simpledb_login(username, password) ==
    /\ IF username \in DOMAIN users /\ users[username].password = password
       THEN /\ current_user' = username
            /\ current_role' = users[username].role
            /\ ret' = Ret("login", username, "ok", "")
       ELSE /\ ret' = Ret("login", username, "InvalidLogin", "")
            /\ UNCHANGED <<current_user, current_role>>
    /\ UNCHANGED <<store, value_index, btree_keys, inverted_index,
                   transaction_log, db_file, bak_file, db_vars>>

simpledb_logout ==
    /\ IF current_user = ""
       THEN /\ ret' = Ret("logout", "", "NotLoggedIn", "")
            /\ UNCHANGED <<current_user, current_role>>
       ELSE /\ current_user' = ""
            /\ current_role' = ""
            /\ ret' = Ret("logout", current_user, "ok", "")
    /\ UNCHANGED <<store, value_index, btree_keys, inverted_index,
                   transaction_log, db_file, bak_file, db_vars>>

simpledb_create(key, value, io) ==
    /\ IF current_user = ""
       THEN /\ ret' = Ret("create", key, "LoginRequired", "")
            /\ UNCHANGED <<store, value_index, btree_keys, inverted_index,
                           transaction_log, db_file, bak_file>>
       ELSE IF Has(store, key)
       THEN /\ ret' = Ret("create", key, "KeyExists", "")
            /\ UNCHANGED <<store, value_index, btree_keys, inverted_index,
                           transaction_log, db_file, bak_file>>
       ELSE LET parsed_value == parse_value(value)
            IN /\ transaction_log' = Logged("create", key, None)
               /\ store' = Put(store, key, parsed_value)
               /\ value_index' = IndexAppend(value_index,
                                     json_dumps(parsed_value, TRUE), key)
               /\ inverted_index' = IndexAppendAll(inverted_index,
                                        Words(parsed_value), key)
               /\ btree_keys' = IF IsNumber(parsed_value)
                                THEN btree_insert(btree_keys, key, parsed_value)
                                ELSE btree_keys
               /\ IF ~transaction_active
                  THEN /\ save(store', io)
                       /\ ret' = IF io = "ok"
                                 THEN Ret("create", key, "ok",
                                          json_dumps(parsed_value, FALSE))
                                 ELSE Ret("create", key, "raised", "")
                  ELSE /\ UNCHANGED <<db_file, bak_file>>
                       /\ ret' = Ret("create", key, "ok",
                                     json_dumps(parsed_value, FALSE))
    /\ UNCHANGED <<current_user, current_role, db_vars>>

\* read without the test of the login.
simpledb_read_open(key) ==
    /\ ret' = read_result(store, key)
    /\ UNCHANGED <<store, value_index, btree_keys, inverted_index,
                   transaction_log, db_file, bak_file, current_user,
                   current_role, db_vars>>

simpledb_read(key) ==
    /\ ret' = IF current_user = ""
              THEN Ret("read", key, "LoginRequired", "")
              ELSE read_result(store, key)
    /\ UNCHANGED <<store, value_index, btree_keys, inverted_index,
                   transaction_log, db_file, bak_file, current_user,
                   current_role, db_vars>>

simpledb_update(key, value, io) ==
    /\ IF current_user = ""
       THEN /\ ret' = Ret("update", key, "LoginRequired", "")
            /\ UNCHANGED <<store, value_index, btree_keys, inverted_index,
                           transaction_log, db_file, bak_file>>
       ELSE IF ~Has(store, key)
       THEN /\ ret' = Ret("update", key, "KeyNotFound", "")
            /\ UNCHANGED <<store, value_index, btree_keys, inverted_index,
                           transaction_log, db_file, bak_file>>
       ELSE LET old_value == Get(store, key)
                parsed == parse_value(value)
                carries == IsDict(old_value) /\ HasField(old_value, "file_paths")
            IN IF carries /\ ~IsDict(parsed)
               THEN \* parsed_value["file_paths"] = ... on a value that is no dict
                    /\ ret' = Ret("update", key, "raised", "")
                    /\ UNCHANGED <<store, value_index, btree_keys, inverted_index,
                                   transaction_log, db_file, bak_file>>
               ELSE LET parsed_value ==
                            IF carries
                            THEN SetField(parsed, "file_paths",
                                          Field(old_value, "file_paths"))
                            ELSE parsed
                        removed == btree_remove(btree_keys, key)
                    IN /\ transaction_log' = Logged("update", key, old_value)
                       /\ store' = Put(store, key, parsed_value)
                       /\ value_index' =
                              IndexAppend(IndexDiscard(value_index,
                                              json_dumps(old_value, TRUE), key),
                                          json_dumps(parsed_value, TRUE), key)
                       /\ inverted_index' =
                              IndexAppendAll(IndexDiscardAll(inverted_index,
                                                 Words(old_value), key),
                                             Words(parsed_value), key)
                       /\ btree_keys' =
                              IF IsNumber(parsed_value)
                              THEN btree_insert(removed, key, parsed_value)
                              ELSE removed
                       /\ IF ~transaction_active
                          THEN /\ save(store', io)
                               /\ ret' = IF io = "ok"
                                         THEN Ret("update", key, "ok",
                                                  json_dumps(parsed_value, FALSE))
                                         ELSE Ret("update", key, "raised", "")
                          ELSE /\ UNCHANGED <<db_file, bak_file>>
                               /\ ret' = Ret("update", key, "ok",
                                             json_dumps(parsed_value, FALSE))
    /\ UNCHANGED <<current_user, current_role, db_vars>>

simpledb_delete(key, io) ==
    /\ IF current_user = "" \/ current_role # "admin"
       THEN /\ ret' = Ret("delete", key, "AdminRequired", "")
            /\ UNCHANGED <<store, value_index, btree_keys, inverted_index,
                           transaction_log, db_file, bak_file>>
       ELSE IF ~Has(store, key)
       THEN /\ ret' = Ret("delete", key, "KeyNotFound", "")
            /\ UNCHANGED <<store, value_index, btree_keys, inverted_index,
                           transaction_log, db_file, bak_file>>
       ELSE LET value == Get(store, key)
            IN /\ transaction_log' = Logged("delete", key, value)
               /\ IF FilePathsTest(value) = "TypeError"
                  THEN \* caught by the method's except: an error result
                       /\ ret' = Ret("delete", key, "error", "")
                       /\ UNCHANGED <<store, value_index, btree_keys,
                                      inverted_index, db_file, bak_file>>
                  ELSE /\ store' = Del(store, key)
                       /\ value_index' = IndexDiscard(value_index,
                                             json_dumps(value, TRUE), key)
                       /\ inverted_index' = IndexDiscardAll(inverted_index,
                                                Words(value), key)
                       /\ btree_keys' = btree_remove(btree_keys, key)
                       /\ IF ~transaction_active
                          THEN /\ save(store', io)
                               /\ ret' = IF io = "ok"
                                         THEN Ret("delete", key, "ok", "")
                                         ELSE Ret("delete", key, "error", "")
                          ELSE /\ UNCHANGED <<db_file, bak_file>>
                               /\ ret' = Ret("delete", key, "ok", "")
    /\ UNCHANGED <<current_user, current_role, db_vars>>

simpledb_Next ==
    \/ \E login \in Logins : Call /\ simpledb_login(login[1], login[2])
    \/ Call /\ simpledb_logout
    \/ \E key \in Keys, value \in simpledb_Raws, io \in SaveOutcomes :
           Call /\ simpledb_create(key, value, io)
    \/ \E key \in Keys : Call /\ simpledb_read(key)
    \/ \E key \in Keys, value \in simpledb_Raws, io \in SaveOutcomes :
           Call /\ simpledb_update(key, value, io)
    \/ \E key \in Keys, io \in SaveOutcomes : Call /\ simpledb_delete(key, io)

simpledb_Spec == Init /\ [][simpledb_Next]_vars

(***************************************************************************)
(* join, max, min, sum, avg and list_all: the same code in db.py and in    *)
(* simpledb.py, which tests the login first.                               *)
(***************************************************************************)
\* str(value) of a number
PyStr(value) ==
    IF value.t = "bool" THEN (IF value.n = 1 THEN "True" ELSE "False")
    ELSE ToString(value.n)

\* str(num / den): the quotient as Python prints a float, for the quotients
\* that have one decimal (the lists of the model hold one or two numbers)
PyDiv(num, den) ==
    ToString(num \div den) \o "." \o ToString(((num % den) * 10) \div den)

RECURSIVE SumOf(_)
SumOf(items) == IF items = <<>> THEN 0 ELSE items[1][2].n + SumOf(Tail(items))

\* max(value), min(value), sum(value), sum(value) / len(value) of a list of
\* numbers: the text of the result, or the exception the built-in raises
Aggregate(fn, items) ==
    LET numbers == {items[i][2].n : i \in 1..Len(items)}
    IN CASE fn = "sum" -> [status |-> "ok", out |-> ToString(SumOf(items))]
         [] fn = "avg" ->
               (IF items = <<>> THEN [status |-> "raised", out |-> ""]
                ELSE [status |-> "ok", out |-> PyDiv(SumOf(items), Len(items))])
         [] fn = "max" ->
               (IF items = <<>> THEN [status |-> "raised", out |-> ""]
                ELSE [status |-> "ok",
                      out |-> ToString(CHOOSE n \in numbers :
                                           \A m \in numbers : m <= n)])
         [] fn = "min" ->
               (IF items = <<>> THEN [status |-> "raised", out |-> ""]
                ELSE [status |-> "ok",
                      out |-> ToString(CHOOSE n \in numbers :
                                           \A m \in numbers : n <= m)])

\* What max, min, sum or avg (fn) returns for key on the store st.
aggregate_result(st, fn, key) ==
    IF ~Has(st, key) THEN Ret(fn, key, "KeyNotFound", "")
    ELSE LET value == Get(st, key)
         IN IF IsNumber(value) THEN Ret(fn, key, "ok", PyStr(value))
            ELSE IF value.t = "list"
                    /\ \A i \in 1..Len(value.d) : IsNumber(value.d[i][2])
            THEN LET found == Aggregate(fn, value.d)
                 IN Ret(fn, key, found.status, found.out)
            ELSE Ret(fn, key, "UnsupportedType", "")

\* What join returns for two keys on the store st; field "" is no field.
join_result(st, key1, key2, field) ==
    LET value1 == Get(st, key1)
        value2 == Get(st, key2)
        name == key1 \o " " \o key2
        Joined == Ret("join", name, "ok",
                      key1 \o "=" \o json_dumps(value1, FALSE) \o ", "
                           \o key2 \o "=" \o json_dumps(value2, FALSE))
    IN IF ~Has(st, key1) \/ ~Has(st, key2)
       THEN Ret("join", name, "KeyNotFound", "")
       ELSE IF field # ""
       THEN IF ~(IsDict(value1) /\ IsDict(value2))
            THEN Ret("join", name, "JoinNeedsDict", "")
            ELSE IF ~HasField(value1, field) \/ ~HasField(value2, field)
            THEN Ret("join", name, "FieldNotFound", "")
            ELSE IF PyEq(Field(value1, field), Field(value2, field))
            THEN Joined
            ELSE Ret("join", name, "NoMatch", "")
       ELSE IF PyEq(value1, value2) THEN Joined
            ELSE Ret("join", name, "NoMatch", "")

\* What list_all returns on the store st: a line for each key.
list_all_result(st) ==
    Ret("list", "", "ok",
        Join([i \in 1..Len(st) |->
                 st[i][1] \o ": " \o json_dumps(st[i][2], FALSE)], "\n"))

(***************************************************************************)
(* find of simpledb.py: the query may carry "sortby <field>" and           *)
(* "limit <n>"; the operators are those of db.py and fulltext.             *)
(***************************************************************************)

\* parts.index(word), counted from 1
IndexOf(parts, word) ==
    CHOOSE i \in 1..Len(parts) :
        parts[i] = word /\ \A j \in 1..(i - 1) : parts[j] # word

\* parts[:idx] + parts[idx + 2:], idx counted from 1
Without(parts, idx) ==
    SubSeq(parts, 1, idx - 1) \o SubSeq(parts, idx + 2, Len(parts))

\* int(text): the number, or ValueError
int(text) ==
    CASE text = "0" -> [ok |-> TRUE, n |-> 0]
      [] text = "1" -> [ok |-> TRUE, n |-> 1]
      [] text = "2" -> [ok |-> TRUE, n |-> 2]
      [] OTHER -> [ok |-> FALSE, n |-> 0]

\* float('-inf')
NegInf == [t |-> "float", n |-> 0, s |-> "-inf", d |-> <<>>]

\* get_sort_key with a sort field: the field of an object that has it
get_sort_key(st, key, sort_field) ==
    LET value == Get(st, key)
    IN IF IsDict(value) /\ HasField(value, sort_field)
       THEN Field(value, sort_field)
       ELSE NegInf

\* The order of the strings that are field values in the model.
StrRank(text) ==
    CASE text = "A" -> 1
      [] text = "B" -> 2
      [] OTHER -> 0

\* x < y raises TypeError unless both are numbers, both are strings, or both
\* are lists that are equal or one of them empty (the lists of the model
\* hold objects, and two objects that differ have no order)
Comparable(x, y) ==
    \/ IsNumber(x) /\ IsNumber(y)
    \/ IsStr(x) /\ IsStr(y)
    \/ x.t = "list" /\ y.t = "list" /\ (x.d = <<>> \/ y.d = <<>> \/ x.d = y.d)

\* x < y for comparable sort keys
KeyLess(x, y) ==
    IF IsStr(x) THEN StrRank(x.s) < StrRank(y.s)
    ELSE IF x.t = "list" THEN x.d = <<>> /\ y.d # <<>>
    ELSE IF x = NegInf THEN y # NegInf
    ELSE IF y = NegInf THEN FALSE
    ELSE x.n < y.n

\* list.sort(key=...): stable, ascending
RECURSIVE SortKeys(_, _, _)
SortKeys(keys, st, sort_field) ==
    IF keys = <<>> THEN <<>>
    ELSE LET rest == SortKeys(SubSeq(keys, 1, Len(keys) - 1), st, sort_field)
             last == keys[Len(keys)]
             Before(k) == ~KeyLess(get_sort_key(st, last, sort_field),
                                   get_sort_key(st, k, sort_field))
             front == SelectSeq(rest, Before)
             back == SelectSeq(rest, LAMBDA k : ~Before(k))
         IN front \o <<last>> \o back

\* results[:limit]
Take(results, limit) ==
    SubSeq(results, 1, IF limit < Len(results) THEN limit ELSE Len(results))

\* The words of a fulltext query: set(parsed_query_value.lower().split())
QueryWords(main_query) ==
    UNION {StrWords(Lower(main_query[i])) : i \in 2..Len(main_query)}

\* The fulltext operator: the intersection of the buckets of the words that
\* are in the index; order is the order in which the set is listed.
fulltext(eng, main_query, order) ==
    LET words == QueryWords(main_query)
        found == {word \in words : word \in DOMAIN eng.inverted_index}
    IN IF words = {} THEN [status |-> "EmptyQuery", keys |-> <<>>]
       ELSE [status |-> "ok",
             keys |-> IF found = {} THEN <<>>
                      ELSE SelectSeq(order, LAMBDA key :
                               \A word \in found :
                                   key \in Range(eng.inverted_index[word]))]

\* What the query selects, before sorting and truncation.
simpledb_Select(eng, main_query, order) ==
    IF main_query[1] = "fulltext" THEN fulltext(eng, main_query, order)
    ELSE Select(eng, main_query)

\* What find returns for the words parts to a user who is logged in.
simpledb_find_result(eng, parts, order) ==
    LET Error(status) == [status |-> status, keys |-> <<>>]
        has_sort == /\ "sortby" \in Range(parts)
                    /\ IndexOf(parts, "sortby") < Len(parts)
        sort_field == IF has_sort THEN parts[IndexOf(parts, "sortby") + 1]
                      ELSE ""
        after_sort == IF has_sort THEN Without(parts, IndexOf(parts, "sortby"))
                      ELSE parts
        has_limit == /\ "limit" \in Range(parts)
                     /\ IndexOf(parts, "limit") < Len(parts)
        limit == int(parts[IndexOf(parts, "limit") + 1])
        \* with a limit the query is cut from parts again, not from what the
        \* sortby clause left
        main_query == IF has_limit
                      THEN Without(parts, IndexOf(parts, "limit"))
                      ELSE after_sort
    IN IF Len(parts) < 2 THEN Error("InvalidQuery")
       ELSE IF has_limit /\ ~limit.ok THEN Error("LimitNotInteger")
       ELSE IF has_limit /\ limit.n <= 0 THEN Error("LimitNotPositive")
       ELSE IF main_query = <<>> THEN Error("raised")
       ELSE LET selected == simpledb_Select(eng, main_query, order)
                results == selected.keys
                unsortable ==
                    \E i, j \in 1..Len(results) :
                        /\ i # j
                        /\ ~Comparable(
                               get_sort_key(eng.store, results[i], sort_field),
                               get_sort_key(eng.store, results[j], sort_field))
            IN IF selected.status # "ok" THEN selected
               ELSE IF sort_field # "" /\ unsortable THEN Error("SortError")
               ELSE LET sorted == IF sort_field # ""
                                  THEN SortKeys(results, eng.store, sort_field)
                                  ELSE results
                    IN [status |-> "ok",
                        keys |-> IF has_limit THEN Take(sorted, limit.n)
                                 ELSE sorted]

\* results[:limit] done on the list itself: del results[limit:]
sorted_in_place_cut(bucket, st, sort_field) ==
    Take(SortKeys(bucket, st, sort_field), 1)

\* results.sort(key=...) on the list find selected
sorted_in_place(bucket, st, sort_field) == SortKeys(bucket, st, sort_field)

\* The equality index after find.  For "=" the list find sorts is the bucket
\* itself (self.value_index.get returns the list the index holds), so a
\* sortby clause sorts the bucket in place; for the other operators find
\* builds a list of its own.  A sort that raises on the first comparison
\* has moved nothing.
simpledb_find_index(eng, parts) ==
    LET has_sort == /\ "sortby" \in Range(parts)
                    /\ IndexOf(parts, "sortby") < Len(parts)
        sort_field == parts[IndexOf(parts, "sortby") + 1]
        has_limit == /\ "limit" \in Range(parts)
                     /\ IndexOf(parts, "limit") < Len(parts)
        main_query == IF has_limit
                      THEN Without(parts, IndexOf(parts, "limit"))
                      ELSE Without(parts, IndexOf(parts, "sortby"))
        value_key == json_dumps(parse_value(Join(Tail(main_query), " ")), TRUE)
    IN IF /\ has_sort
          /\ simpledb_find_result(eng, parts, <<>>).status = "ok"
          /\ main_query[1] = "="
          /\ value_key \in DOMAIN eng.value_index
       THEN [eng.value_index EXCEPT
                 ![value_key] = sorted_in_place(@, eng.store, sort_field)]
       ELSE eng.value_index

simpledb_find(parts, order) ==
    /\ ret' = IF current_user = ""
              THEN Ret("find", Join(parts, " "), "LoginRequired", "")
              ELSE LET found == simpledb_find_result(Engine, parts, order)
                   IN Ret("find", Join(parts, " "), found.status,
                          Join(found.keys, ", "))
    /\ value_index' = IF current_user = "" THEN value_index
                      ELSE simpledb_find_index(Engine, parts)
    /\ UNCHANGED <<store, btree_keys, inverted_index, transaction_log, db_file,
                   bak_file, current_user, current_role, db_vars>>

\* The values, the queries and the listing orders of the runs with find.
simpledb_FindRaws ==
    {"5", "hello", "A", "{\"Class\": \"A\"}", "{\"Class\": \"B\"}"}

simpledb_Queries ==
    {<<"=", "5">>, <<">", "0">>, <<"contains", "hello">>,
     <<"fulltext", "hello">>, <<"fulltext", "hello", "zzz">>,
     <<"fulltext", "a", "class">>, <<"fulltext", "">>, <<"fulltext">>,
     <<"Class", "=", "A">>,
     <<"contains", "class", "sortby", "Class">>,
     <<"fulltext", "a", "sortby", "Class">>,
     <<"contains", "class", "limit", "1">>,
     <<"=", "5", "sortby", "Class", "limit", "1">>,
     <<"=", "5", "limit", "0">>, <<"=", "5", "limit", "x">>,
     <<"sortby", "Class">>}

Orders == {<<"a", "b">>, <<"b", "a">>}

simpledb_NextFind ==
    \/ \E login \in Logins : Call /\ simpledb_login(login[1], login[2])
    \/ \E key \in Keys, value \in simpledb_FindRaws, io \in SaveOutcomes :
           Call /\ simpledb_create(key, value, io)
    \/ \E key \in Keys, value \in simpledb_FindRaws, io \in SaveOutcomes :
           Call /\ simpledb_update(key, value, io)
    \/ \E key \in Keys, io \in SaveOutcomes : Call /\ simpledb_delete(key, io)
    \/ \E parts \in simpledb_Queries, order \in Orders :
           Call /\ simpledb_find(parts, order)

simpledb_SpecFind == Init /\ [][simpledb_NextFind]_vars

(***************************************************************************)
(* db.py: join, the aggregates and list, and the runs that call them.      *)
(***************************************************************************)
\* What the commands that only read leave alone.
read_only_frame ==
    UNCHANGED <<store, value_index, btree_keys, transaction_log,
                transaction_active, db_file, bak_file, begin_store,
                begin_file, simpledb_vars>>

join(key1, key2, field) ==
    /\ ret' = join_result(store, key1, key2, field)
    /\ read_only_frame

\* max, min, sum and avg: an exception of the built-in leaves the method
aggregate(fn, key) ==
    /\ ret' = aggregate_result(store, fn, key)
    /\ read_only_frame

list_all ==
    /\ ret' = list_all_result(store)
    /\ read_only_frame

\* The values and the queries of the runs with every command.
CommandRaws == {"5", "hello", "[1, 2]", "[]", "{\"Class\": \"A\"}"}

CommandQueries ==
    {<<"=", "5">>, <<">", "0">>, <<"contains", "hello">>, <<"Class", "=", "A">>,
     <<"Class", "A">>, <<"=">>, <<">", "A">>}

Aggregates == {"max", "min", "sum", "avg"}

NextCommand ==
    \/ \E key \in Keys, value \in CommandRaws, io \in SaveOutcomes :
           Call /\ create(key, value, io)
    \/ \E key \in Keys : Call /\ read(key)
    \/ \E key \in Keys, value \in CommandRaws, io \in SaveOutcomes :
           Call /\ update(key, value, io)
    \/ \E key \in Keys, io \in SaveOutcomes : Call /\ delete(key, io)
    \/ \E parts \in CommandQueries : Call /\ find(parts)
    \/ \E key1 \in Keys, key2 \in Keys, field \in {"", "Class"} :
           Call /\ join(key1, key2, field)
    \/ \E fn \in Aggregates, key \in Keys : Call /\ aggregate(fn, key)
    \/ Call /\ list_all
    \/ Call /\ begin
    \/ \E io \in SaveOutcomes : Call /\ commit(io)
    \/ Counted /\ rollback

SpecCommand == Init /\ [][NextCommand]_vars

(***************************************************************************)
(* simpledb.py: the other commands of its main loop.                       *)
(***************************************************************************)
simpledb_join(key1, key2, field) ==
    /\ ret' = IF current_user = ""
              THEN Ret("join", key1 \o " " \o key2, "LoginRequired", "")
              ELSE join_result(store, key1, key2, field)
    /\ UNCHANGED <<store, value_index, btree_keys, inverted_index,
                   transaction_log, db_file, bak_file, current_user,
                   current_role, db_vars>>

\* max, min, sum and avg
simpledb_aggregate(fn, key) ==
    /\ ret' = IF current_user = ""
              THEN Ret(fn, key, "LoginRequired", "")
              ELSE aggregate_result(store, fn, key)
    /\ UNCHANGED <<store, value_index, btree_keys, inverted_index,
                   transaction_log, db_file, bak_file, current_user,
                   current_role, db_vars>>

simpledb_list_all ==
    /\ ret' = IF current_user = ""
              THEN Ret("list", "", "LoginRequired", "")
              ELSE list_all_result(store)
    /\ UNCHANGED <<store, value_index, btree_keys, inverted_index,
                   transaction_log, db_file, bak_file, current_user,
                   current_role, db_vars>>

\* The files a caller can name in upload: one that does not exist, one of a
\* type that is not allowed, one over the size limit and one that passes.
UploadFiles == {"nofile.jpg", "notes.txt", "big.jpg", "photo.jpg"}

\* The metadata upload stores for a file, reduced to its path.
file_metadata(key, file_path) ==
    DictV(<<<<"path", StrV("files/" \o key \o "_" \o file_path \o ".gz")>>>>)

simpledb_upload(key, file_path, io) ==
    /\ IF current_user = "" \/ current_role # "admin"
       THEN /\ ret' = Ret("upload", key, "AdminRequired", "")
            /\ UNCHANGED <<store, transaction_log, db_file, bak_file>>
       ELSE IF ~Has(store, key)
       THEN /\ ret' = Ret("upload", key, "KeyNotFound", "")
            /\ UNCHANGED <<store, transaction_log, db_file, bak_file>>
       ELSE IF file_path = "nofile.jpg"
       THEN /\ ret' = Ret("upload", key, "FileNotFound", "")
            /\ UNCHANGED <<store, transaction_log, db_file, bak_file>>
       ELSE IF file_path = "notes.txt"
       THEN /\ ret' = Ret("upload", key, "UnsupportedFileType", "")
            /\ UNCHANGED <<store, transaction_log, db_file, bak_file>>
       ELSE IF file_path = "big.jpg"
       THEN /\ ret' = Ret("upload", key, "FileTooLarge", "")
            /\ UNCHANGED <<store, transaction_log, db_file, bak_file>>
       ELSE IF ~IsDict(Get(store, key))
       THEN \* "file_paths" not in value, or value["file_paths"] = [], raises
            \* TypeError on a value that is no dict
            /\ ret' = Ret("upload", key, "raised", "")
            /\ UNCHANGED <<store, transaction_log, db_file, bak_file>>
       ELSE LET value == Get(store, key)
                files == IF HasField(value, "file_paths")
                         THEN Field(value, "file_paths").d ELSE <<>>
                uploaded == SetField(value, "file_paths",
                                ListV(Append(files,
                                    <<"", file_metadata(key, file_path)>>)))
            IN /\ store' = Put(store, key, uploaded)
               /\ transaction_log' = Logged("upload", key, None)
               /\ IF ~transaction_active
                  THEN /\ save(store', io)
                       /\ ret' = IF io = "ok"
                                 THEN Ret("upload", key, "ok", "")
                                 ELSE Ret("upload", key, "raised", "")
                  ELSE /\ UNCHANGED <<db_file, bak_file>>
                       /\ ret' = Ret("upload", key, "ok", "")
    /\ UNCHANGED <<value_index, btree_keys, inverted_index, current_user,
                   current_role, db_vars>>

RECURSIVE FillInvertedIndex(_, _)
FillInvertedIndex(st, index) ==
    IF st = <<>> THEN index
    ELSE FillInvertedIndex(Tail(st),
             IndexAppendAll(index, Words(st[1][2]), st[1][1]))

\* rebuild_indices of simpledb.py: the three indexes from the store
simpledb_rebuild_indices(st) ==
    rebuild_indices(st) @@ [inverted_index |-> FillInvertedIndex(st, <<>>)]

\* One pass of the loop of simpledb.py's rollback.  The old value of a
\* create or an upload record is None, so neither cleans an index bucket.
simpledb_Undo(rec, eng) ==
    CASE rec.op = "create" ->
            (IF Has(eng.store, rec.key)
             THEN [eng EXCEPT !.store = Del(eng.store, rec.key),
                              !.btree_keys = btree_remove(eng.btree_keys,
                                                          rec.key)]
             ELSE eng)
      [] rec.op \in {"update", "delete"} ->
            (LET restored == Put(eng.store, rec.key, rec.old_value)
             IN [store |-> restored] @@ simpledb_rebuild_indices(restored))
      [] rec.op = "upload" ->
            (IF /\ Has(eng.store, rec.key)
                /\ IsDict(Get(eng.store, rec.key))
                /\ HasField(Get(eng.store, rec.key), "file_paths")
                /\ Field(Get(eng.store, rec.key), "file_paths").d # <<>>
             THEN LET value == Get(eng.store, rec.key)
                      files == Field(value, "file_paths").d
                      kept == SubSeq(files, 1, Len(files) - 1)
                      popped ==
                          IF kept = <<>>
                          THEN DictV(SelectSeq(value.d, LAMBDA item :
                                         item[1] # "file_paths"))
                          ELSE SetField(value, "file_paths", ListV(kept))
                      restored == Put(eng.store, rec.key, popped)
                  IN [store |-> restored]
                         @@ simpledb_rebuild_indices(restored)
             ELSE eng)

RECURSIVE simpledb_Replay(_, _)
simpledb_Replay(log, eng) ==
    IF log = <<>> THEN eng
    ELSE simpledb_Replay(Tail(log), simpledb_Undo(Head(log), eng))

simpledb_rollback ==
    /\ IF current_user = ""
       THEN /\ ret' = Ret("rollback", "", "LoginRequired", "")
            /\ UNCHANGED <<store, value_index, btree_keys, inverted_index,
                           transaction_log, db_vars>>
       ELSE IF ~transaction_active
       THEN /\ ret' = Ret("rollback", "", "NoTransaction", "")
            /\ UNCHANGED <<store, value_index, btree_keys, inverted_index,
                           transaction_log, db_vars>>
       ELSE LET eng == simpledb_Replay(transaction_log, Engine)
            IN /\ store' = eng.store
               /\ value_index' = eng.value_index
               /\ btree_keys' = eng.btree_keys
               /\ inverted_index' = eng.inverted_index
               /\ transaction_log' = <<>>
               /\ transaction_active' = FALSE
               /\ begin_store' = <<>>
               /\ begin_file' = Absent
               /\ ret' = Ret("rollback", "", "ok", "")
    /\ UNCHANGED <<db_file, bak_file, current_user, current_role>>

\* main calls self.begin() and self.commit(), which the class does not
\* define: AttributeError, caught and printed by main.
simpledb_begin ==
    /\ ret' = Ret("begin", "", "raised", "")
    /\ UNCHANGED <<store, value_index, btree_keys, inverted_index,
                   transaction_log, db_file, bak_file, current_user,
                   current_role, db_vars>>

simpledb_commit ==
    /\ ret' = Ret("commit", "", "raised", "")
    /\ UNCHANGED <<store, value_index, btree_keys, inverted_index,
                   transaction_log, db_file, bak_file, current_user,
                   current_role, db_vars>>

\* The values and the queries of the runs with every command.
simpledb_CommandRaws == {"5", "[1, 2]", "[]", "{\"Class\": \"A\"}"}

simpledb_CommandQueries == {<<"=", "5">>, <<"Class", "=", "A">>, <<"=">>}

simpledb_NextCommand ==
    \/ \E login \in Logins : Call /\ simpledb_login(login[1], login[2])
    \/ Call /\ simpledb_logout
    \/ \E key \in Keys, value \in simpledb_CommandRaws, io \in SaveOutcomes :
           Call /\ simpledb_create(key, value, io)
    \/ \E key \in Keys : Call /\ simpledb_read(key)
    \/ \E key \in Keys, value \in simpledb_CommandRaws, io \in SaveOutcomes :
           Call /\ simpledb_update(key, value, io)
    \/ \E key \in Keys, io \in SaveOutcomes : Call /\ simpledb_delete(key, io)
    \/ \E parts \in simpledb_CommandQueries, order \in Orders :
           Call /\ simpledb_find(parts, order)
    \/ \E key1 \in Keys, key2 \in Keys, field \in {"", "Class"} :
           Call /\ simpledb_join(key1, key2, field)
    \/ \E fn \in {"max", "min", "sum", "avg"}, key \in Keys :
           Call /\ simpledb_aggregate(fn, key)
    \/ Call /\ simpledb_list_all
    \/ Call /\ simpledb_rollback
    \/ \E key \in Keys, file_path \in UploadFiles, io \in SaveOutcomes :
           Call /\ simpledb_upload(key, file_path, io)
    \/ Call /\ simpledb_begin
    \/ Call /\ simpledb_commit

simpledb_SpecCommand == Init /\ [][simpledb_NextCommand]_vars

(***************************************************************************)
(* simpledb.py: the runs of an administrator who creates, uploads and then *)
(* reads.                                                                  *)
(***************************************************************************)
\* The number of calls of such a run.
MaxReadCalls == 5

ReadCall ==
    /\ ncalls < MaxReadCalls
    /\ ncalls' = ncalls + 1
    /\ UNCHANGED <<save_vars, thread_vars, lost_log>>

simpledb_ReadRaws == {"5", "[]", "{\"file_paths\": []}"}

simpledb_ReadQueries ==
    {<<"=", "{\"file_paths\": []}", "sortby", "file_paths">>,
     <<"=", "{\"file_paths\": []}">>,
     <<"=", "5", "sortby", "Class">>,
     <<"fulltext", "file_paths", "sortby", "file_paths">>,
     <<"sortby", "file_paths">>, <<"=">>}

simpledb_NextRead ==
    \/ ReadCall /\ simpledb_login("admin", "admin123")
    \/ \E key \in Keys, value \in simpledb_ReadRaws :
           ReadCall /\ simpledb_create(key, value, "ok")
    \/ \E key \in Keys : ReadCall /\ simpledb_upload(key, "photo.jpg", "ok")
    \/ \E key \in Keys : ReadCall /\ simpledb_read(key)
    \/ \E parts \in simpledb_ReadQueries, order \in Orders :
           ReadCall /\ simpledb_find(parts, order)
    \/ \E key1 \in Keys, key2 \in Keys, field \in {"", "file_paths"} :
           ReadCall /\ simpledb_join(key1, key2, field)
    \/ \E fn \in Aggregates, key \in Keys :
           ReadCall /\ simpledb_aggregate(fn, key)
    \/ ReadCall /\ simpledb_list_all

simpledb_SpecRead == Init /\ [][simpledb_NextRead]_vars

(***************************************************************************)
(* db.py: threads that call one engine.  Every public method starts with   *)
(* self.lock.acquire(timeout=5), raises TimeoutError when that returns     *)
(* False, and runs its body in a try block whose finally releases the      *)
(* lock.  A method takes one step of the model per statement that reads or *)
(* writes the engine.                                                      *)
(***************************************************************************)
\* The number of calls the threads make in one run.
MaxThreadCalls == 4

\* The commands, keys and raw values of the threads' calls.
ThreadOps == {"create", "read", "update", "begin", "rollback"}
ThreadKeys == {"a"}
ThreadRaws == {"5", "hello"}

\* The state the lock guards.
shared_vars == <<store, value_index, btree_keys, transaction_log,
                 transaction_active, db_file, bak_file>>

\* What no step of a thread touches.
thread_frame == UNCHANGED <<simpledb_vars, save_vars, lost_log>>

\* The positions of a method between its acquire and its release.
BodyPcs == {"check", "log", "store", "value_index", "btree", "btree_insert",
            "btree_inserting", "btree_inserted", "save", "saving", "saved",
            "replay", "rebuild", "rebuilding", "rebuilt", "release"}

\* The positions inside a nested method, which holds the lock a second time.
NestedPcs == {"btree_inserting", "btree_inserted", "saving", "saved",
              "rebuilding", "rebuilt"}

\* Thread t is between the acquire and the release of its method.
InOperation(t) == threads[t].pc \in BodyPcs

\* Thread t moves to the statement pc.
Goto(t, pc) == threads' = [threads EXCEPT ![t].pc = pc]

\* Thread t reaches its return statement with a result: the finally block is
\* next.
Return(t, status, out) ==
    threads' = [threads EXCEPT ![t].pc = "release", ![t].status = status,
                               ![t].out = out]

\* Thread t outside a call, its history kept.
Rest(t) ==
    [Idle EXCEPT !.began = threads[t].began, !.created = threads[t].created]

\* A thread calls a public method.
thread_call(t, op, key, value) ==
    /\ threads[t].pc = "idle"
    /\ ncalls < MaxThreadCalls
    /\ ncalls' = ncalls + 1
    /\ threads' = [threads EXCEPT ![t] =
                       [Rest(t) EXCEPT !.pc = "acquire", !.op = op,
                                    !.key = IF op \in {"begin", "rollback"}
                                            THEN "" ELSE key,
                                    !.value = IF op \in {"create", "update"}
                                              THEN value ELSE ""]]
    /\ UNCHANGED <<shared_vars, lock, ret, begin_store, begin_file>>
    /\ thread_frame

\* acquire that takes the lock whoever holds it.
thread_acquire_unlocked(t) ==
    /\ threads[t].pc = "acquire"
    /\ lock' = [owner |-> t, count |-> 1]
    /\ Goto(t, "check")
    /\ UNCHANGED <<shared_vars, ret, ncalls, begin_store, begin_file>>
    /\ thread_frame

\* self.lock.acquire(timeout=5) returns True: no thread holds the lock.
thread_acquire(t) ==
    /\ threads[t].pc = "acquire"
    /\ lock.owner = ""
    /\ lock' = [owner |-> t, count |-> 1]
    /\ Goto(t, "check")
    /\ UNCHANGED <<shared_vars, ret, ncalls, begin_store, begin_file>>
    /\ thread_frame

\* self.lock.acquire(timeout=5) returns False: another thread held the lock
\* for the five seconds.  The raise stands before the try block, so the
\* finally block does not run.
thread_acquire_timeout(t) ==
    /\ threads[t].pc = "acquire"
    /\ lock.owner \notin {"", t}
    /\ threads' = [threads EXCEPT ![t] = Rest(t)]
    /\ ret' = Ret(threads[t].op, threads[t].key, "LockTimeout", "")
    /\ UNCHANGED <<shared_vars, lock, ncalls, begin_store, begin_file>>
    /\ thread_frame

\* create: if key in self.store
thread_create_check(t) ==
    /\ threads[t].pc = "check"
    /\ threads[t].op = "create"
    /\ IF Has(store, threads[t].key)
       THEN Return(t, "KeyExists", "")
       ELSE Goto(t, "log")
    /\ UNCHANGED <<shared_vars, lock, ret, ncalls, begin_store, begin_file>>
    /\ thread_frame

\* update: if key not in self.store; old_value = deepcopy(self.store[key])
thread_update_check(t) ==
    /\ threads[t].pc = "check"
    /\ threads[t].op = "update"
    /\ IF ~Has(store, threads[t].key)
       THEN Return(t, "KeyNotFound", "")
       ELSE threads' = [threads EXCEPT
                            ![t].pc = "log",
                            ![t].old_value = Get(store, threads[t].key)]
    /\ UNCHANGED <<shared_vars, lock, ret, ncalls, begin_store, begin_file>>
    /\ thread_frame

\* read: the body of the method
thread_read(t) ==
    /\ threads[t].pc = "check"
    /\ threads[t].op = "read"
    /\ LET result == read_result(store, threads[t].key)
       IN Return(t, result.status, result.out)
    /\ UNCHANGED <<shared_vars, lock, ret, ncalls, begin_store, begin_file>>
    /\ thread_frame

\* begin: the body of the method
thread_begin(t) ==
    /\ threads[t].pc = "check"
    /\ threads[t].op = "begin"
    /\ IF transaction_active
       THEN /\ Return(t, "TransactionInProgress", "")
            /\ UNCHANGED <<transaction_active, transaction_log, begin_store,
                           begin_file>>
       ELSE /\ transaction_active' = TRUE
            /\ transaction_log' = <<>>
            /\ begin_store' = store
            /\ begin_file' = db_file
            /\ threads' =
                   [u \in Threads |->
                       IF u = t
                       THEN [threads[t] EXCEPT !.pc = "release",
                                               !.status = "ok", !.out = "",
                                               !.began = TRUE, !.created = ""]
                       ELSE [threads[u] EXCEPT !.began = FALSE,
                                               !.created = ""]]
    /\ UNCHANGED <<store, value_index, btree_keys, db_file, bak_file, lock,
                   ret, ncalls>>
    /\ thread_frame

\* rollback: if not self.transaction_active
thread_rollback_check(t) ==
    /\ threads[t].pc = "check"
    /\ threads[t].op = "rollback"
    /\ IF ~transaction_active
       THEN Return(t, "NoTransaction", "")
       ELSE threads' = [threads EXCEPT ![t].pc = "replay", ![t].i = 1]
    /\ UNCHANGED <<shared_vars, lock, ret, ncalls, begin_store, begin_file>>
    /\ thread_frame

\* create, update: self.transaction_log.append(...) under the flag
thread_log(t) ==
    /\ threads[t].pc = "log"
    /\ transaction_log' =
           Logged(threads[t].op, threads[t].key, threads[t].old_value)
    /\ Goto(t, "store")
    /\ UNCHANGED <<store, value_index, btree_keys, transaction_active, db_file,
                   bak_file, lock, ret, ncalls, begin_store, begin_file>>
    /\ thread_frame

\* create, update: self.store[key] = parsed_value
thread_store(t) ==
    /\ threads[t].pc = "store"
    /\ store' = Put(store, threads[t].key, parse_value(threads[t].value))
    /\ Goto(t, "value_index")
    /\ UNCHANGED <<value_index, btree_keys, transaction_log, transaction_active,
                   db_file, bak_file, lock, ret, ncalls, begin_store,
                   begin_file>>
    /\ thread_frame

\* create, update: the statements on self.value_index
thread_value_index(t) ==
    /\ threads[t].pc = "value_index"
    /\ LET value_key == json_dumps(parse_value(threads[t].value), TRUE)
           old_value_key == json_dumps(threads[t].old_value, TRUE)
       IN value_index' =
              IF threads[t].op = "update"
              THEN IndexAppend(IndexDiscard(value_index, old_value_key,
                                            threads[t].key),
                               value_key, threads[t].key)
              ELSE IndexAppend(value_index, value_key, threads[t].key)
    /\ Goto(t, "btree")
    /\ UNCHANGED <<store, btree_keys, transaction_log, transaction_active,
                   db_file, bak_file, lock, ret, ncalls, begin_store,
                   begin_file>>
    /\ thread_frame

\* update: the list comprehension that drops the key from
\* self.btree_root.keys; create, update: the test for a number
thread_btree(t) ==
    /\ threads[t].pc = "btree"
    /\ btree_keys' = IF threads[t].op = "update"
                     THEN btree_remove(btree_keys, threads[t].key)
                     ELSE btree_keys
    /\ LET parsed_value == parse_value(threads[t].value)
       IN IF IsNumber(parsed_value) THEN Goto(t, "btree_insert")
          ELSE IF transaction_active
          THEN Return(t, "ok", json_dumps(parsed_value, FALSE))
          ELSE Goto(t, "save")
    /\ UNCHANGED <<store, value_index, transaction_log, transaction_active,
                   db_file, bak_file, lock, ret, ncalls, begin_store,
                   begin_file>>
    /\ thread_frame

\* btree_insert: self.lock.acquire(timeout=5) by the thread that holds the
\* lock
thread_btree_insert_acquire(t) ==
    /\ threads[t].pc = "btree_insert"
    /\ lock.owner = t
    /\ lock' = [lock EXCEPT !.count = @ + 1]
    /\ Goto(t, "btree_inserting")
    /\ UNCHANGED <<shared_vars, ret, ncalls, begin_store, begin_file>>
    /\ thread_frame

\* btree_insert: the try block
thread_btree_insert(t) ==
    /\ threads[t].pc = "btree_inserting"
    /\ btree_keys' = btree_insert(btree_keys, threads[t].key,
                                  parse_value(threads[t].value))
    /\ Goto(t, "btree_inserted")
    /\ UNCHANGED <<store, value_index, transaction_log, transaction_active,
                   db_file, bak_file, lock, ret, ncalls, begin_store,
                   begin_file>>
    /\ thread_frame

\* btree_insert: the finally block, and the test 'if not
\* self.transaction_active' of create and update
thread_btree_insert_release(t) ==
    /\ threads[t].pc = "btree_inserted"
    /\ lock' = [lock EXCEPT !.count = @ - 1]
    /\ IF transaction_active
       THEN Return(t, "ok", json_dumps(parse_value(threads[t].value), FALSE))
       ELSE Goto(t, "save")
    /\ UNCHANGED <<shared_vars, ret, ncalls, begin_store, begin_file>>
    /\ thread_frame

\* save: self.lock.acquire(timeout=5) by the thread that holds the lock
thread_save_acquire(t) ==
    /\ threads[t].pc = "save"
    /\ lock.owner = t
    /\ lock' = [lock EXCEPT !.count = @ + 1]
    /\ Goto(t, "saving")
    /\ UNCHANGED <<shared_vars, ret, ncalls, begin_store, begin_file>>
    /\ thread_frame

\* save: the try block; an exception of it leaves create and update too
thread_save_write(t, io) ==
    /\ threads[t].pc = "saving"
    /\ save(store, io)
    /\ threads' = [threads EXCEPT
                       ![t].pc = "saved",
                       ![t].status = IF io = "ok" THEN "ok" ELSE "raised",
                       ![t].out = IF io = "ok"
                                  THEN json_dumps(parse_value(threads[t].value),
                                                  FALSE)
                                  ELSE ""]
    /\ UNCHANGED <<store, value_index, btree_keys, transaction_log,
                   transaction_active, lock, ret, ncalls, begin_store,
                   begin_file>>
    /\ thread_frame

\* save that returns without the release.
thread_save_release_kept(t) ==
    /\ threads[t].pc = "saved"
    /\ Goto(t, "release")
    /\ UNCHANGED <<shared_vars, lock, ret, ncalls, begin_store, begin_file>>
    /\ thread_frame

\* save: the finally block
thread_save_release(t) ==
    /\ threads[t].pc = "saved"
    /\ lock' = [lock EXCEPT !.count = @ - 1]
    /\ Goto(t, "release")
    /\ UNCHANGED <<shared_vars, ret, ncalls, begin_store, begin_file>>
    /\ thread_frame

\* rollback: one pass of the loop over the log, up to the call of
\* rebuild_indices that ends the pass for an update or a delete record
thread_replay(t) ==
    /\ threads[t].pc = "replay"
    /\ threads[t].i <= Len(transaction_log)
    /\ LET rec == transaction_log[threads[t].i]
       IN IF rec.op = "create"
          THEN LET eng == Undo(rec, [store |-> store,
                                     value_index |-> value_index,
                                     btree_keys |-> btree_keys])
               IN /\ store' = eng.store
                  /\ value_index' = eng.value_index
                  /\ btree_keys' = eng.btree_keys
                  /\ threads' = [threads EXCEPT ![t].i = @ + 1]
          ELSE /\ store' = Put(store, rec.key, rec.old_value)
               /\ Goto(t, "rebuild")
               /\ UNCHANGED <<value_index, btree_keys>>
    /\ UNCHANGED <<transaction_log, transaction_active, db_file, bak_file, lock,
                   ret, ncalls, begin_store, begin_file>>
    /\ thread_frame

\* rebuild_indices: self.lock.acquire(timeout=5) by the thread that holds
\* the lock
thread_rebuild_acquire(t) ==
    /\ threads[t].pc = "rebuild"
    /\ lock.owner = t
    /\ lock' = [lock EXCEPT !.count = @ + 1]
    /\ Goto(t, "rebuilding")
    /\ UNCHANGED <<shared_vars, ret, ncalls, begin_store, begin_file>>
    /\ thread_frame

\* rebuild_indices: the try block
thread_rebuild(t) ==
    /\ threads[t].pc = "rebuilding"
    /\ LET rebuilt == rebuild_indices(store)
       IN /\ value_index' = rebuilt.value_index
          /\ btree_keys' = rebuilt.btree_keys
    /\ Goto(t, "rebuilt")
    /\ UNCHANGED <<store, transaction_log, transaction_active, db_file,
                   bak_file, lock, ret, ncalls, begin_store, begin_file>>
    /\ thread_frame

\* rebuild_indices: the finally block; the loop of rollback goes on
thread_rebuild_release(t) ==
    /\ threads[t].pc = "rebuilt"
    /\ lock' = [lock EXCEPT !.count = @ - 1]
    /\ threads' = [threads EXCEPT ![t].pc = "replay", ![t].i = @ + 1]
    /\ UNCHANGED <<shared_vars, ret, ncalls, begin_store, begin_file>>
    /\ thread_frame

\* rollback: the two assignments after the loop
thread_rollback_clear(t) ==
    /\ threads[t].pc = "replay"
    /\ threads[t].i > Len(transaction_log)
    /\ transaction_log' = <<>>
    /\ transaction_active' = FALSE
    /\ begin_store' = <<>>
    /\ begin_file' = Absent
    /\ Return(t, "ok", "")
    /\ UNCHANGED <<store, value_index, btree_keys, db_file, bak_file, lock, ret,
                   ncalls>>
    /\ thread_frame

\* The finally block that returns without the release.
thread_release_kept(t) ==
    /\ threads[t].pc = "release"
    /\ ret' = Ret(threads[t].op, threads[t].key, threads[t].status,
                  threads[t].out)
    /\ threads' = [threads EXCEPT ![t] = Rest(t)]
    /\ UNCHANGED <<shared_vars, lock, ncalls, begin_store, begin_file>>
    /\ thread_frame

\* finally: self.lock.release(), and the caller has its result or exception
thread_release(t) ==
    /\ threads[t].pc = "release"
    /\ lock' = IF lock.count > 1
               THEN [lock EXCEPT !.count = @ - 1]
               ELSE Unlocked
    /\ ret' = Ret(threads[t].op, threads[t].key, threads[t].status,
                  threads[t].out)
    /\ threads' =
           LET ended == threads[t].op = "rollback" /\ threads[t].status = "ok"
               guest == /\ threads[t].op = "create"
                        /\ threads[t].status = "ok"
                        /\ transaction_active
                        /\ ~threads[t].began
           IN [u \in Threads |->
                  IF u = t
                  THEN [Rest(t) EXCEPT
                            !.began = IF ended THEN FALSE ELSE @,
                            !.created = IF guest THEN threads[t].key ELSE @]
                  ELSE [threads[u] EXCEPT
                            !.began = IF ended THEN FALSE ELSE @]]
    /\ UNCHANGED <<shared_vars, ncalls, begin_store, begin_file>>
    /\ thread_frame

\* The steps of thread t inside a call.
thread_step(t) ==
    \/ thread_acquire(t)
    \/ thread_acquire_timeout(t)
    \/ thread_create_check(t)
    \/ thread_update_check(t)
    \/ thread_read(t)
    \/ thread_begin(t)
    \/ thread_rollback_check(t)
    \/ thread_log(t)
    \/ thread_store(t)
    \/ thread_value_index(t)
    \/ thread_btree(t)
    \/ thread_btree_insert_acquire(t)
    \/ thread_btree_insert(t)
    \/ thread_btree_insert_release(t)
    \/ thread_save_acquire(t)
    \/ \E io \in SaveOutcomes : thread_save_write(t, io)
    \/ thread_save_release(t)
    \/ thread_replay(t)
    \/ thread_rebuild_acquire(t)
    \/ thread_rebuild(t)
    \/ thread_rebuild_release(t)
    \/ thread_rollback_clear(t)
    \/ thread_release(t)

thread_Next ==
    \/ \E t \in Threads, op \in ThreadOps, key \in ThreadKeys,
          value \in ThreadRaws : thread_call(t, op, key, value)
    \/ \E t \in Threads : thread_step(t)

thread_Spec == Init /\ [][thread_Next]_vars

\* A thread inside a call runs on, and an acquire returns after five seconds
\* at the latest.
thread_FairSpec ==
    /\ thread_Spec
    /\ \A t \in Threads : WF_vars(thread_step(t))

(***************************************************************************)
(* Properties of db.py and simpledb.py.                                    *)
(***************************************************************************)
\* The number of times key occurs in the sequence seq.
Count(seq, key) == Cardinality({i \in 1..Len(seq) : seq[i] = key})

\* The number of entries the numeric index keys holds for key.
Entries(keys, key) == Cardinality({i \in 1..Len(keys) : keys[i][1] = key})

\* A step that is a call of the command op.
Called(op) == ret'.op = op

\* A step that is a rollback of an open transaction.
RolledBack == transaction_active /\ Called("rollback") /\ ret'.status = "ok"

\* C1: read of a key that is not in the store returns KeyNotFound; after a
\* successful create(k, v), inside a transaction or outside, read(k) returns
\* the value v parses to, and what read(k) returns changes only by an update
\* or a delete of k or by a rollback.
C1_ReadAfterCreate ==
    /\ [](\A k \in Keys : ~Has(store, k) =>
              read_result(store, k).status = "KeyNotFound")
    /\ [](ret.op = "read" => ret = read_result(store, ret.key))
    /\ [][\A k \in Keys, v \in Raws, io \in SaveOutcomes :
              (create(k, v, io) /\ ret'.status = "ok") =>
                  read_result(store', k) =
                      Ret("read", k, "ok", json_dumps(parse_value(v), FALSE))]_vars
    /\ [][\A k \in Keys :
              (Has(store, k) /\ read_result(store', k) # read_result(store, k)) =>
                  \/ Called("rollback")
                  \/ ret'.key = k /\ (Called("update") \/ Called("delete"))]_vars

\* A key created inside an open transaction has just been read back.
C1_Witness ==
    /\ ret.op = "read" /\ ret.status = "ok"
    /\ transaction_active
    /\ transaction_log # <<>>
    /\ transaction_log[1].op = "create"
    /\ transaction_log[1].key = ret.key
    /\ ret.out = "true"

\* C2: a rollback leaves the store holding, for every key, the value it held
\* at begin, whatever the transaction did, the same key more than once
\* included.
C2_RollbackRestoresStore ==
    [][RolledBack => AsMap(store') = AsMap(begin_store)]_vars

\* C3: begin, create(k, v) for a key not in the store, rollback: the store
\* is as it was at begin, and k is in no bucket of the equality index and
\* has no entry in the numeric index.
C3_RollbackOfCreate ==
    [][\A k \in Keys :
           (/\ RolledBack
            /\ Len(transaction_log) = 1
            /\ transaction_log[1].op = "create"
            /\ transaction_log[1].key = k
            /\ ~Has(begin_store, k)) =>
               /\ store' = begin_store
               /\ \A name \in DOMAIN value_index' :
                      k \notin Range(value_index'[name])
               /\ Entries(btree_keys', k) = 0]_vars

\* C4: begin, update(k, v1) of an existing key with value v0, rollback:
\* read(k) returns v0, both indexes are what a rebuild of the store at begin
\* gives, and k has a numeric entry, with value v0, exactly when v0 is an
\* integer or a float.
C4_RollbackOfUpdate ==
    [][\A k \in Keys :
           (/\ RolledBack
            /\ Len(transaction_log) = 1
            /\ transaction_log[1].op = "update"
            /\ transaction_log[1].key = k) =>
               LET v0 == Get(begin_store, k)
               IN /\ read_result(store', k) = read_result(begin_store, k)
                  /\ [value_index |-> value_index', btree_keys |-> btree_keys']
                         = rebuild_indices(begin_store)
                  /\ IF v0.t \in {"int", "float"}
                     THEN /\ Entries(btree_keys', k) = 1
                          /\ <<k, v0>> \in Range(btree_keys')
                     ELSE Entries(btree_keys', k) = 0]_vars

\* C5: with no transaction, after any creates, updates and deletes, a key is
\* in the bucket of the canonical serialization of its current value, once,
\* and in no other bucket; a key that is not in the store is in no bucket.
C5_EqualityIndexExact ==
    \A k \in Keys :
        \A name \in DOMAIN value_index \cup
                    {json_dumps(store[i][2], TRUE) : i \in 1..Len(store)} :
            Count(Bucket(value_index, name), k) =
                IF Has(store, k) /\ json_dumps(Get(store, k), TRUE) = name
                THEN 1 ELSE 0

\* An update has moved a key into the bucket that holds the other key.
C5_Witness ==
    /\ ret.op = "update" /\ ret.status = "ok"
    /\ \E name \in DOMAIN value_index : Len(value_index[name]) = 2
    /\ ncalls = MaxCalls

\* C6: with no transaction, a key has an entry in the numeric index exactly
\* when its current value is an integer or a float; a key whose value is
\* true or false has none and is returned by no > or < query.
C6_NumericIndexExcludesBooleans ==
    \A k \in Keys :
        /\ Entries(btree_keys, k) =
               IF Has(store, k) /\ Get(store, k).t \in {"int", "float"}
               THEN 1 ELSE 0
        /\ (Has(store, k) /\ Get(store, k).t = "bool") =>
               \A operator \in {">", "<"}, n \in {0, 1, 5} :
                   k \notin Range(btree_range_query(btree_keys, operator, IntV(n)))

\* C7: simpledb.py, after any creates, updates and deletes by a logged-in
\* user: a key is in the bucket of a token, once, exactly when the key is in
\* the store and the token is a word of its value; no bucket is empty.
C7_InvertedIndexExact ==
    /\ \A k \in Keys :
           \A word \in DOMAIN inverted_index \cup
                       UNION {Words(store[i][2]) : i \in 1..Len(store)} :
               Count(Bucket(inverted_index, word), k) =
                   IF Has(store, k) /\ word \in Words(Get(store, k))
                   THEN 1 ELSE 0
    /\ \A word \in DOMAIN inverted_index : inverted_index[word] # <<>>

\* An update has taken a key out of one bucket and put it in a bucket that
\* holds the other key.
C7_Witness ==
    /\ ret.op = "update" /\ ret.status = "ok"
    /\ Len(store) = 2
    /\ Words(store[1][2]) # Words(store[2][2])
    /\ \E word \in DOMAIN inverted_index : Len(inverted_index[word]) = 2
    /\ ncalls = MaxCalls

\* C8: the transaction flag is False or True; begin with no transaction
\* opens one with an empty log; begin in a transaction returns
\* TransactionInProgress and leaves the flag, the log, the store and the
\* snapshot alone; commit and rollback with no transaction return
\* NoTransaction and leave the store, the indexes and the snapshot alone.
C8_TransactionStates ==
    /\ [](transaction_active \in BOOLEAN)
    /\ [][Called("begin") =>
              IF ~transaction_active
              THEN /\ ret'.status = "ok"
                   /\ transaction_active'
                   /\ transaction_log' = <<>>
              ELSE /\ ret'.status = "TransactionInProgress"
                   /\ UNCHANGED <<transaction_active, transaction_log, store,
                                  db_file, bak_file>>]_vars
    /\ [][((Called("commit") \/ Called("rollback")) /\ ~transaction_active) =>
              /\ ret'.status = "NoTransaction"
              /\ ~transaction_active'
              /\ UNCHANGED <<store, value_index, btree_keys, db_file,
                             bak_file>>]_vars

\* begin was refused in a transaction that has a record in its log.
C8_Witness ==
    /\ ret.op = "begin" /\ ret.status = "TransactionInProgress"
    /\ transaction_active
    /\ transaction_log # <<>>

\* C9: when commit of an open transaction reports success, no transaction
\* is open, the log is empty and the snapshot file holds the store.
C9_CommitPersists ==
    (ret.op = "commit" /\ ret.status = "ok") =>
        /\ ~transaction_active
        /\ transaction_log = <<>>
        /\ db_file.exists
        /\ json_load(db_file) = store

\* A commit has written two records that were created in its transaction.
C9_Witness ==
    /\ ret.op = "commit" /\ ret.status = "ok"
    /\ Len(store) = 2
    /\ ~bak_file.exists

\* C10: with no transaction, the snapshot holds the store when a create, an
\* update or a delete returns success; in a transaction no create, update
\* or delete changes the snapshot file or the backup file, and only commit
\* writes the snapshot.
C10_SnapshotWrittenIffIdle ==
    /\ [][(Called("create") \/ Called("update") \/ Called("delete")) =>
              IF transaction_active
              THEN UNCHANGED <<db_file, bak_file>>
              ELSE ret'.status = "ok" =>
                       db_file'.exists /\ json_load(db_file') = store']_vars
    /\ [][(transaction_active /\ db_file' # db_file) => Called("commit")]_vars

\* An update in a transaction has left the snapshot behind the store.
C10_Witness ==
    /\ ret.op = "update" /\ ret.status = "ok"
    /\ transaction_active
    /\ db_file.exists
    /\ json_load(db_file) # store


\* The store a snapshot file holds: the empty store when there is no file.
FileStore(file) == IF file.exists THEN json_load(file) ELSE <<>>

\* C11: when the process terminates in an open transaction, the store the
\* next process loads is the content the snapshot had at begin: no create,
\* update or delete of the transaction is in it.
C11_CrashLosesTransaction ==
    [][(Called("load") /\ transaction_active) =>
           /\ db_file = begin_file
           /\ store' = FileStore(begin_file)
           /\ ~transaction_active'
           /\ transaction_log' = <<>>]_vars

\* A process died with two records in its undo log and the next one has
\* loaded a store that differs from the one the dead process held.
C11_Witness ==
    /\ ret.op = "load" /\ ret.status = "ok"
    /\ Len(lost_log) = 2
    /\ store # <<>>
    /\ lost_log[1].op = "update"
    /\ lost_log[2].op = "delete"

\* C15: load of a file that does not parse or whose top-level value is no
\* object ends with an empty store, empty indexes and a snapshot of the
\* empty store at the target path; load of a file that parses to an object
\* ends with that object as the store and both indexes as a rebuild of it.
C15_LoadCorrupted ==
    [][(Called("load") /\ db_file.exists /\ ret'.status # "raised") =>
           IF db_file.form = "object"
           THEN /\ store' = json_load(db_file)
                /\ [value_index |-> value_index', btree_keys |-> btree_keys']
                       = rebuild_indices(json_load(db_file))
                /\ db_file' = db_file
           ELSE /\ store' = <<>>
                /\ value_index' = <<>>
                /\ btree_keys' = <<>>
                /\ db_file' = json_dump(<<>>)
                /\ FileStore(db_file') = <<>>]_vars

\* load has replaced a file that json.load rejects and kept its bytes in the
\* backup file.
C15_Witness ==
    /\ ret.op = "load" /\ ret.status = "Corrupted"
    /\ bak_file = GarbageFile
    /\ db_file.form = "object"

\* The last call has saved the store: a create, update or delete outside a
\* transaction, or a commit, that returned success.
Saved ==
    /\ ret.status = "ok"
    /\ ~transaction_active
    /\ ret.op \in {"create", "update", "delete", "commit"}

\* The two bucket indexes hold the same keys the same number of times in
\* every bucket.
SameBuckets(index, other) ==
    \A name \in DOMAIN index \cup DOMAIN other : \A k \in Keys :
        Count(Bucket(index, name), k) = Count(Bucket(other, name), k)

\* The two numeric indexes hold the same pairs the same number of times.
SamePairs(keys, other) ==
    \A pair \in Range(keys) \cup Range(other) :
        Count(keys, pair) = Count(other, pair)

\* C16: a successful save followed by a restart gives the store that was
\* saved, and the indexes rebuilt from it hold what the indexes in memory
\* held before the save.
C16_SaveLoadRoundTrip ==
    [][(Called("load") /\ Saved) =>
           /\ store' = store
           /\ SameBuckets(value_index', value_index)
           /\ SamePairs(btree_keys', btree_keys)]_vars


\* C12: at every statement of save, and when the process dies at any of
\* them, the target path holds what it held before (nothing, when there was
\* nothing) until os.replace puts the whole new snapshot there; the bytes of
\* the new snapshot are flushed and fsynced before that.
C12_SaveAtomic ==
    /\ [](db_file.form # "garbage")
    /\ [][db_file' # db_file =>
              /\ save_pc = "synced"
              /\ tmp_file = json_dump(store)
              /\ db_file' = json_dump(store)]_vars
    /\ [][~db_file'.exists => ~db_file.exists]_vars

\* The process died while the temporary file held a part of the new
\* snapshot and the target held the old one.
C12_Witness ==
    /\ save_pc = "crashed"
    /\ tmp_file = GarbageFile
    /\ NonEmpty(db_file)
    /\ db_file # json_dump(store)

\* C13: a save that finds a non-empty snapshot S has the whole copy of S in
\* the .bak file before it creates the temporary file, and still has it
\* there when the target is replaced by the new store; a save that finds no
\* snapshot or an empty one writes no backup file.
C13_BackupBeforeTemp ==
    /\ []((tmp_file.exists /\ NonEmpty(db_file)) => bak_file = db_file)
    /\ [][(save_pc = "synced" /\ save_pc' = "replaced" /\ NonEmpty(db_file)) =>
              /\ bak_file' = db_file
              /\ db_file' = json_dump(store)]_vars
    /\ [][bak_file' # bak_file =>
              NonEmpty(db_file) /\ ~tmp_file.exists]_vars

\* A save has ended with the old snapshot in the backup file, in the place
\* of an older backup, and the new store at the target.
C13_Witness ==
    /\ save_pc = "done"
    /\ ncalls = 2
    /\ bak_file.form = "object"
    /\ bak_file # json_dump(<<>>)
    /\ db_file = json_dump(store)
    /\ bak_file # db_file

\* C14: when the Timer of an I/O block of save fires while the block runs,
\* save ends with a Timeout failure for its caller and the target path is
\* not replaced.
C14_TimeoutAbortsSave ==
    [][timer_fired =>
           /\ db_file' = db_file
           /\ save_pc' = "done" => ret'.status = "Timeout"]_vars


\* C17: find "> x" returns the keys of the store whose value is an integer
\* or a float greater than x, find "< x" the ones whose value is less than
\* x, each key once and in ascending order of value; a key whose value is x
\* is in neither.
C17_RangeQueryExact ==
    \A operator \in {">", "<"}, x \in {0, 5, 7} :
        LET keys == find_result(Engine, <<operator, ToString(x)>>).keys
            expected ==
                {k \in KeysOf(store) :
                    /\ Get(store, k).t \in {"int", "float"}
                    /\ IF operator = ">" THEN Get(store, k).n > x
                                         ELSE Get(store, k).n < x}
        IN /\ Range(keys) = expected
           /\ Len(keys) = Cardinality(expected)
           /\ \A i, j \in 1..Len(keys) :
                  i < j => Get(store, keys[i]).n <= Get(store, keys[j]).n

\* C18: find "Class = v" returns the keys of the store whose value is an
\* object that has the field Class with the value v, each once; a key that
\* is deleted, or updated to a value that does not match, is not returned
\* by the next query.
C18_FieldMatchExact ==
    /\ [](\A raw \in {"A", "B", "5"} :
              LET keys == find_result(Engine, <<"Class", "=", raw>>).keys
                  expected ==
                      {k \in KeysOf(store) :
                          /\ Get(store, k).t = "dict"
                          /\ \E i \in 1..Len(Get(store, k).d) :
                                 Get(store, k).d[i] = <<"Class", parse_value(raw)>>}
              IN /\ Range(keys) = expected
                 /\ Len(keys) = Cardinality(expected))
    /\ [][\A k \in Keys :
              (/\ k \in Range(find_result(Engine, <<"Class", "=", "A">>).keys)
               /\ ret'.key = k /\ ret'.status \in {"ok", "error", "raised"}
               /\ \/ Called("delete")
                  \/ Called("update") /\ Get(store', k) # Get(store, k)) =>
                  k \notin Range(find_result(Engine', <<"Class", "=", "A">>).keys)]_vars

\* A query for Class = A has returned the one of two objects that has it.
C18_Witness ==
    /\ ret.op = "find" /\ ret.key = "Class = A" /\ ret.status = "ok"
    /\ ret.out = "b"
    /\ Has(store, "a")
    /\ Get(store, "a") = DictV(<<<<"Class", StrV("B")>>>>)


\* C19: a fulltext query returns the keys that are in the bucket of every
\* word of the query, and no key at all when one of the words has no bucket
\* in the inverted index; a query without words returns the EmptyQuery
\* error.
C19_FulltextEveryToken ==
    /\ \A tokens \in {<<"hello">>, <<"hello", "zzz">>, <<"a", "class">>},
          order \in Orders :
           LET found == simpledb_find_result(Engine, <<"fulltext">> \o tokens,
                                             order)
               words == Range(tokens)
           IN /\ found.status = "ok"
              /\ Range(found.keys) =
                     IF \E word \in words : word \notin DOMAIN inverted_index
                     THEN {}
                     ELSE {key \in Keys :
                              \A word \in words :
                                  key \in Range(inverted_index[word])}
    /\ \A order \in Orders :
           simpledb_find_result(Engine, <<"fulltext", "">>, order).status
               = "EmptyQuery"

\* C20: with "sortby Class limit 1" after it, a query of any operator
\* returns the first key of what the query alone selects, ordered by the
\* field Class.
C20_SortbyAndLimit ==
    \A query \in {<<"=", "5">>, <<">", "0">>, <<"contains", "class">>,
                  <<"fulltext", "class">>, <<"Class", "=", "A">>},
       order \in Orders :
        LET plain == simpledb_find_result(Engine, query, order)
            sorted == simpledb_find_result(Engine,
                          query \o <<"sortby", "Class">>, order)
            both == simpledb_find_result(Engine,
                        query \o <<"sortby", "Class", "limit", "1">>, order)
        IN (plain.status = "ok" /\ sorted.status = "ok") =>
               both.keys = Take(SortKeys(plain.keys, store, "Class"), 1)


\* C21: create of a key that is in the store returns KeyExists, update and
\* delete of a key that is not in it return KeyNotFound; the call returns
\* (it does not raise) and leaves the store, both indexes, the log, the
\* flag, the snapshot and the backup as they were, in a transaction or not.
C21_ErrorsChangeNothing ==
    [][\A k \in Keys :
           (/\ ret'.key = k
            /\ \/ Called("create") /\ k \in KeysOf(store)
               \/ (Called("update") \/ Called("delete")) /\ k \notin KeysOf(store)) =>
               /\ ret'.status = IF Called("create") THEN "KeyExists"
                                ELSE "KeyNotFound"
               /\ UNCHANGED <<store, value_index, btree_keys, transaction_log,
                              transaction_active, db_file, bak_file>>]_vars

\* create was refused for a key that was created in the open transaction.
C21_Witness ==
    /\ ret.op = "create" /\ ret.status = "KeyExists"
    /\ transaction_active
    /\ transaction_log # <<>>
    /\ transaction_log[Len(transaction_log)].key = ret.key

\* C24: the log holds records only while a transaction is open, and a
\* commit or a rollback that reports success leaves the log empty and no
\* transaction open.
C24_LogOnlyWhileActive ==
    /\ [](~transaction_active => transaction_log = <<>>)
    /\ [][((Called("commit") \/ Called("rollback")) /\ ret'.status = "ok") =>
              /\ transaction_log' = <<>>
              /\ ~transaction_active']_vars

\* A rollback has replayed a log of two records and closed the transaction.
C24_Witness ==
    /\ ret.op = "rollback" /\ ret.status = "ok"
    /\ Len(lost_log) = 2
    /\ transaction_log = <<>>
    /\ ~transaction_active

\* C27: rollback replays the log from its first record to its last: when the
\* log holds two or more update records of a key and no other record of it,
\* the key ends with the old value of the last of them.
C27_RollbackInLogOrder ==
    [][\A k \in Keys :
           LET recs == {i \in 1..Len(transaction_log) :
                           transaction_log[i].key = k}
               last == CHOOSE i \in recs : \A j \in recs : j <= i
           IN (/\ RolledBack
               /\ Cardinality(recs) >= 2
               /\ \A i \in recs : transaction_log[i].op = "update") =>
                  /\ Has(store', k)
                  /\ Get(store', k) = transaction_log[last].old_value]_vars

\* A rollback has replayed two updates of a, and a holds the value the
\* first update wrote, not the value it had at begin.
C27_Witness ==
    /\ ret.op = "rollback" /\ ret.status = "ok"
    /\ Len(lost_log) = 2
    /\ \A i \in 1..2 : lost_log[i].op = "update" /\ lost_log[i].key = "a"
    /\ Get(store, "a") = lost_log[2].old_value
    /\ Get(store, "a") # lost_log[1].old_value

\* The indexes of eng hold no stale key and miss no key of its store.
NoStaleNoMissing(eng) ==
    /\ \A k \in Keys :
           \A name \in DOMAIN eng.value_index \cup
                       {json_dumps(eng.store[i][2], TRUE) :
                            i \in 1..Len(eng.store)} :
               Count(Bucket(eng.value_index, name), k) =
                   IF Has(eng.store, k)
                      /\ json_dumps(Get(eng.store, k), TRUE) = name
                   THEN 1 ELSE 0
    /\ \A i \in 1..Len(eng.btree_keys) :
           /\ Has(eng.store, eng.btree_keys[i][1])
           /\ Get(eng.store, eng.btree_keys[i][1]) = eng.btree_keys[i][2]
    /\ \A k \in Keys :
           /\ Entries(eng.btree_keys, k) <= 1
           /\ (Has(eng.store, k) /\ Get(eng.store, k).t \in {"int", "float"}) =>
                  Entries(eng.btree_keys, k) = 1

\* C28: right after rollback has processed an update or a delete record,
\* both indexes hold no stale key and miss no key of the store, and a
\* rebuild of the store gives the same indexes again; so it is after a
\* rollback whose last record is an update or a delete.
C28_RebuildAfterUndo ==
    [][RolledBack =>
           \A i \in 1..Len(transaction_log) :
               transaction_log[i].op \in {"update", "delete"} =>
                   LET eng == Replay(SubSeq(transaction_log, 1, i),
                                     [store |-> store,
                                      value_index |-> value_index,
                                      btree_keys |-> btree_keys])
                   IN /\ NoStaleNoMissing(eng)
                      /\ rebuild_indices(eng.store) =
                             [value_index |-> eng.value_index,
                              btree_keys |-> eng.btree_keys]
                      /\ i = Len(transaction_log) =>
                             /\ store' = eng.store
                             /\ value_index' = eng.value_index
                             /\ btree_keys' = eng.btree_keys]_vars

\* A rollback has replayed a create record and then a delete record of the
\* same key, which is in the store again.
C28_Witness ==
    /\ ret.op = "rollback" /\ ret.status = "ok"
    /\ Len(lost_log) = 2
    /\ lost_log[1].op = "create"
    /\ lost_log[2].op = "delete"
    /\ lost_log[2].key = lost_log[1].key
    /\ Has(store, lost_log[2].key)


\* C29: in every state the numeric index is in non-decreasing order of
\* value.
C29_NumericIndexSorted ==
    \A i, j \in 1..Len(btree_keys) :
        i < j => btree_keys[i][2].n <= btree_keys[j][2].n

\* The index holds two keys with different values in the order of the
\* values, which is not the order in which the store holds them.
C29_Witness ==
    /\ Len(btree_keys) = 2
    /\ Len(store) = 2
    /\ btree_keys[1][2].n < btree_keys[2][2].n
    /\ btree_keys[1][1] = store[2][1]
    /\ btree_keys[2][1] = store[1][1]

\* C30: in every state, in a transaction and after a rollback as well, the
\* numeric index holds at most one entry for a key, the key of an entry is
\* in the store, and the value of the entry is the value the store holds.
C30_NumericIndexLive ==
    /\ \A k \in Keys : Entries(btree_keys, k) <= 1
    /\ \A i \in 1..Len(btree_keys) :
           /\ Has(store, btree_keys[i][1])
           /\ Get(store, btree_keys[i][1]) = btree_keys[i][2]

\* A rollback has undone an update of a key from one number to another, and
\* the index holds the key with the restored value.
C30_Witness ==
    /\ ret.op = "rollback" /\ ret.status = "ok"
    /\ Len(lost_log) = 1
    /\ lost_log[1].op = "update"
    /\ lost_log[1].old_value.t = "int"
    /\ btree_keys = <<<<lost_log[1].key, lost_log[1].old_value>>>>


\* C25: simpledb.py.  While no user is logged in, create, read, update,
\* delete, find, join, max, min, sum, avg, list, rollback and upload return
\* the error that asks for a login (for delete and upload: for the admin
\* role) and leave the store, the indexes, the snapshot and the backup as
\* they were; delete and upload change them only for the role admin; a
\* login that fails leaves the user and the role as they were; logout
\* clears both.
C25_LoginGate ==
    /\ [][(/\ current_user = ""
           /\ ret'.op \in {"create", "read", "update", "delete", "find",
                           "join", "max", "min", "sum", "avg", "list",
                           "rollback", "upload"}) =>
              /\ ret'.status = IF ret'.op \in {"delete", "upload"}
                               THEN "AdminRequired" ELSE "LoginRequired"
              /\ UNCHANGED <<store, value_index, btree_keys, inverted_index,
                             transaction_log, db_file, bak_file>>]_vars
    /\ [][(ret'.op \in {"delete", "upload"} /\ current_role # "admin") =>
              /\ ret'.status = "AdminRequired"
              /\ UNCHANGED <<store, value_index, btree_keys, inverted_index,
                             transaction_log, db_file, bak_file>>]_vars
    /\ [][(Called("login") /\ ret'.status # "ok") =>
              UNCHANGED <<current_user, current_role>>]_vars
    /\ [][(Called("logout") /\ ret'.status = "ok") =>
              current_user' = "" /\ current_role' = ""]_vars
    /\ [](current_user = "" <=> current_role = "")

\* delete was refused after the logout of the user who created the key.
C25_Witness ==
    /\ ret.op = "delete" /\ ret.status = "AdminRequired"
    /\ current_user = ""
    /\ Has(store, ret.key)
    /\ db_file.exists

\* C26: simpledb.py.  For a user who is logged in, the begin command opens
\* a transaction, so that the create, update and delete that follow are
\* logged and not saved, and the commit command saves the store and closes
\* the transaction.
C26_BeginAndCommit ==
    [][current_user # "" =>
           /\ (Called("begin") /\ ~transaction_active) =>
                  ret'.status = "ok" /\ transaction_active'
           /\ (Called("commit") /\ transaction_active) =>
                  /\ ret'.status = "ok" => ~transaction_active'
                  /\ ret'.status = "ok" => json_load(db_file') = store]_vars

\* The numeric index holds exactly the keys of the store's numeric values.
NumericKeysAgree ==
    {btree_keys[i][1] : i \in 1..Len(btree_keys)} =
        {k \in KeysOf(store) : IsNumber(Get(store, k))}

\* C22: with several threads calling one engine, at most one thread is
\* between the acquire and the release of a public method; the store, the
\* indexes, the log, the flag and the snapshot file change only in a step of
\* the thread that holds the lock, while every other thread stays outside
\* its method body; so the half-done state of a method (the store written,
\* the numeric index not yet) is never there when another thread enters.
C22_OperationsAtomic ==
    /\ [](\A t, u \in Threads : (InOperation(t) /\ InOperation(u)) => t = u)
    /\ [](\A t \in Threads : InOperation(t) => lock.owner = t)
    /\ [][shared_vars' # shared_vars =>
              /\ lock.owner \in Threads
              /\ InOperation(lock.owner)
              /\ \A u \in Threads \ {lock.owner} :
                     ~InOperation(u) /\ ~InOperation(u)']_vars
    /\ [][\A t \in Threads :
              (threads[t].pc = "acquire" /\ threads'[t].pc = "check") =>
                  NumericKeysAgree]_vars

\* A thread has written the store and not yet the numeric index while the
\* other thread waits for the lock.
C22_Witness ==
    \E t, u \in Threads :
        /\ threads[t].pc \in {"value_index", "btree"}
        /\ threads[t].op = "update"
        /\ ~NumericKeysAgree
        /\ threads[u].pc = "acquire"

\* C23: threads that call public methods do not deadlock.  A thread whose
\* acquire times out gets LockTimeout, has changed nothing and leaves the
\* lock with its holder at the same depth; a thread that holds the lock
\* gives it back; every call returns a result or a failure.
C23_NoDeadlock ==
    /\ [][\A t \in Threads :
              (threads[t].pc = "acquire" /\ threads'[t].pc = "idle") =>
                  /\ ret' = Ret(threads[t].op, threads[t].key, "LockTimeout", "")
                  /\ lock.owner \in Threads \ {t}
                  /\ UNCHANGED <<shared_vars, lock>>]_vars
    /\ \A t \in Threads : (lock.owner = t) ~> (lock.owner # t)
    /\ \A t \in Threads : (threads[t].pc # "idle") ~> (threads[t].pc = "idle")
    /\ [](\A t \in Threads : threads[t].pc = "idle" => lock.owner # t)

\* A call came back with LockTimeout while the other thread is inside its
\* method.
C23_Witness ==
    /\ ret.status = "LockTimeout"
    /\ \E t \in Threads : InOperation(t) /\ lock.owner = t
\* C31: no bucket of the equality index is empty: update, delete and rollback
\* remove the bucket whose last key they remove, and no call creates an empty
\* bucket.
C31_NoEmptyBucket ==
    \A name \in DOMAIN value_index : value_index[name] # <<>>
\* A delete has removed the only key of the only bucket, and the bucket went
\* with it.
C31_Witness ==
    /\ ret.op = "delete"
    /\ ret.status = "ok"
    /\ store = <<>>
    /\ value_index = <<>>
    /\ lost_log = <<>>
\* C32: while a transaction is active, a successful create appends the one
\* record (create, key, None), and a successful update or delete appends the
\* one record with the key and the value the key had just before the call;
\* a failed call and a call outside a transaction leave the log as it is;
\* records are appended at the end, so the log is in the order of the calls.
C32_LogRecords ==
    [][\A op \in {"create", "update", "delete"} :
           Called(op) =>
               IF transaction_active /\ ret'.status = "ok"
               THEN transaction_log' =
                        Append(transaction_log,
                               [op |-> op, key |-> ret'.key,
                                old_value |-> IF op = "create" THEN None
                                              ELSE Get(store, ret'.key)])
               ELSE UNCHANGED transaction_log]_vars

\* The log of a transaction that created a and then updated it: the create
\* record first, then the update record with the value create had stored.
C32_Witness ==
    /\ transaction_active
    /\ ret.op = "update"
    /\ ret.status = "ok"
    /\ Len(transaction_log) = 2
    /\ transaction_log[1] = [op |-> "create", key |-> "a", old_value |-> None]
    /\ transaction_log[2] = [op |-> "update", key |-> "a", old_value |-> IntV(5)]
    /\ Get(store, "a") = StrV("hello")
\* C33: a commit whose save fails returns an error result, leaves the
\* transaction active and the undo log and the store as they are; a rollback
\* that follows it succeeds, closes the transaction and puts the store back
\* to what it was at begin.
C33_CommitFailureKeepsTransaction ==
    /\ [][(Called("commit") /\ transaction_active /\ ret'.status # "ok") =>
              /\ ret'.status = "error"
              /\ transaction_active'
              /\ UNCHANGED <<transaction_log, store, value_index, btree_keys,
                             db_file>>]_vars
    /\ [][(ret.op = "commit" /\ ret.status = "error" /\ Called("rollback")) =>
              /\ ret'.status = "ok"
              /\ ~transaction_active'
              /\ transaction_log' = <<>>
              /\ AsMap(store') = AsMap(begin_store)]_vars
\* C34: max, min, sum and avg never raise: they return the aggregate for a
\* number and for a list of numbers (the empty list too), UnsupportedType
\* for every other value and KeyNotFound for a key that is not in the store.
C34_AggregatesNeverRaise ==
    [][\A fn \in Aggregates :
           Called(fn) =>
               LET key == ret'.key
               IN ret'.status =
                      IF ~Has(store, key) THEN "KeyNotFound"
                      ELSE IF \/ IsNumber(Get(store, key))
                              \/ /\ Get(store, key).t = "list"
                                 /\ \A i \in 1..Len(Get(store, key).d) :
                                        IsNumber(Get(store, key).d[i][2])
                      THEN "ok"
                      ELSE "UnsupportedType"]_vars
\* The record of key has no field named field, or is no object.
LacksField(st, key, field) == get_sort_key(st, key, field) = NegInf

\* C35: find with a sortby field returns the keys the query returns without
\* it, in the order of the field's values, the records that lack the field
\* or are no objects together at one end; this holds for numbers and for
\* strings as field values, and the query does not fail because a matched
\* record lacks the field.
C35_SortbyPlacesMissing ==
    current_user # "" =>
        \A query \in {<<"=", "5">>, <<"contains", "class">>,
                      <<"fulltext", "a">>, <<"Class", "=", "A">>},
           order \in Orders :
            LET plain == simpledb_find_result(Engine, query, order)
                sorted == simpledb_find_result(Engine,
                              query \o <<"sortby", "Class">>, order)
                n == Len(sorted.keys)
            IN plain.status = "ok" =>
                   /\ sorted.status = "ok"
                   /\ Range(sorted.keys) = Range(plain.keys)
                   /\ n = Len(plain.keys)
                   /\ \A i, j \in 1..n :
                          i < j => ~KeyLess(get_sort_key(store, sorted.keys[j], "Class"),
                                            get_sort_key(store, sorted.keys[i], "Class"))
                   /\ \/ \A i, j \in 1..n :
                             (i < j /\ LacksField(store, sorted.keys[j], "Class")) =>
                                 LacksField(store, sorted.keys[i], "Class")
                      \/ \A i, j \in 1..n :
                             (i < j /\ LacksField(store, sorted.keys[i], "Class")) =>
                                 LacksField(store, sorted.keys[j], "Class")
\* The value satisfies the query parts, read as find reads it.
Satisfies(value, parts) ==
    LET query_value == Join(Tail(parts), " ")
        parsed_query_value == parse_value(query_value)
    IN CASE parts[1] = "=" ->
                json_dumps(value, TRUE) = json_dumps(parsed_query_value, TRUE)
         [] parts[1] = ">" -> IsNumber(value) /\ value.n > parsed_query_value.n
         [] parts[1] = "<" -> IsNumber(value) /\ value.n < parsed_query_value.n
         [] parts[1] = "contains" ->
                IsSubstring(Lower(query_value), StrLower(value))
         [] OTHER ->
                field_match(value, parts[1],
                    parse_value(Join(SubSeq(parts, 3, Len(parts)), " ")))

\* C36: in every reachable state, after a rollback and after the calls that
\* follow it too, every key find returns for =, >, <, contains or a field
\* match is in the store with a value that satisfies the query, and no key
\* is returned twice.
C36_FindReturnsLiveKeys ==
    \A parts \in Queries :
        LET found == find_result(Engine, parts)
        IN found.status = "ok" =>
               /\ \A i \in 1..Len(found.keys) :
                      /\ Has(store, found.keys[i])
                      /\ Satisfies(Get(store, found.keys[i]), parts)
               /\ \A i, j \in 1..Len(found.keys) :
                      found.keys[i] = found.keys[j] => i = j
\* The store st holds what the snapshot file holds; no file is the empty
\* store.
SameAsFile(st, file) == AsMap(st) = AsMap(FileStore(file))

\* The call of this step ran no save that failed.
NoSaveFailed == ret'.status \notin {"raised", "error"}

\* C37: whenever no transaction is active and no save has failed, the store
\* equals the content of the snapshot file: after load, after every create,
\* update and delete outside a transaction, after commit, and after every
\* rollback.
C37_StoreEqualsSnapshot ==
    /\ [][(Called("load") /\ NoSaveFailed) => SameAsFile(store', db_file')]_vars
    /\ [][(/\ Called("create") \/ Called("update") \/ Called("delete")
           /\ ~transaction_active
           /\ NoSaveFailed
           /\ SameAsFile(store, db_file)) =>
              SameAsFile(store', db_file')]_vars
    /\ [][(Called("commit") /\ ret'.status = "ok") =>
              SameAsFile(store', db_file')]_vars
    /\ [][(RolledBack /\ SameAsFile(begin_store, begin_file)) =>
              SameAsFile(store', db_file')]_vars
\* C38: a rollback undoes only the calls of the thread that called begin:
\* a key another thread has created while the transaction was open is in the
\* store after the rollback, and in the snapshot file by then.
C38_RollbackOnlyOwnOperations ==
    [][\A A, B \in Threads :
           (/\ threads[A].pc = "release"
            /\ threads'[A].pc = "idle"
            /\ threads[A].op = "rollback"
            /\ threads[A].status = "ok"
            /\ threads[A].began
            /\ B # A
            /\ threads[B].created # "") =>
               /\ Has(store', threads[B].created)
               /\ Has(FileStore(db_file'), threads[B].created)]_vars
\* The commands that only read.
ReadOnly == {"read", "find", "join", "max", "min", "sum", "avg", "list"}

\* C39: read, find, join, max, min, sum, avg and list leave the store, the
\* contents of every bucket of the equality and the token index, the numeric
\* index, the undo log, the transaction flag and the snapshot and backup
\* files as they are, for every argument: malformed queries and absent keys
\* too.
C39_ReadOnlyChangesNothing ==
    [][(\E op \in ReadOnly : Called(op)) =>
           /\ DOMAIN value_index' = DOMAIN value_index
           /\ SameBuckets(value_index', value_index)
           /\ UNCHANGED inverted_index
           /\ UNCHANGED <<store, btree_keys, transaction_log,
                          transaction_active, db_file, bak_file>>]_vars

\* find with '=' and a sortby clause has just sorted a bucket of the equality
\* index that holds two keys with different sort keys.
C39_Witness ==
    /\ ret.op = "find"
    /\ ret.status = "ok"
    /\ ret.out = "b, a"
    /\ Bucket(value_index, "{\"file_paths\": []}") = <<"b", "a">>
    /\ Len(store) = 2
    /\ store[1][1] = "a"
=============================================================================
